---- MODULE Spec2Model ----
(***************************************************************************)
(* A model of the agent job pipeline of the repository: the tool-calling   *)
(* conversation loop (app/agents/loop.py), the event publisher             *)
(* (app/services/events.py), the job orchestrator run_agent_job            *)
(* (app/workers/celery_app.py), enqueue_delivery                           *)
(* (app/services/webhooks.py) and the delivery task deliver_webhook        *)
(* (app/workers/celery_app.py), for one job id.                            *)
(***************************************************************************)
EXTENDS Integers, Sequences, FiniteSets, TLC

VARIABLES
    lim,              \* how far this behaviour is explored (see Init, InitLoop)
    cfg,              \* the task's arguments and the worker's registry entry
    pc,               \* position of the run_agent_job task for the job
    execs,            \* executions of the task started so far
    retries,          \* self.request.retries of the task (autoretry)
    job,              \* the committed Job row
    sess,             \* the Job row as changed in the open session (uncommitted)
    deliveries,       \* committed WebhookDelivery rows of the job
    dispatched,       \* ids of the deliveries with a deliver_webhook task queued
    events,           \* committed Event rows of the job, in creation order
    channel,          \* messages published on jobs:{job_id}, in order
    result,           \* _run's local `result`
    error,            \* _run's local `error`
    msgs,             \* arun's transcript
    attempt,          \* arun's local `attempt`
    last_tool_result, \* arun's local `last_tool_result`
    ai,               \* the model response of the current round
    tci,              \* index in ai.tool_calls of the next call to process
    round,            \* number of model responses received in this arun
    run,              \* history of the current execution (see NoRun)
    tasks,            \* deliver_webhook task messages waiting in the queue
    http,             \* history of the delivery attempts (see NoHttp)
    sql,              \* statements of the latest session each component opened
    conv,             \* the arun executions running in one worker (see NoConv)
    reg,              \* REGISTRY and the threads calling it (see InitReg)
    subs,             \* the open event streams of stream_job_events (see NoSub)
    rl                \* the rate limiter's keys and the calls of check_rate_limit

vars == <<lim, cfg, pc, execs, retries, job, sess, deliveries, dispatched, events,
          channel, result, error, msgs, attempt, last_tool_result, ai, tci,
          round, run, tasks, http, sql, conv, reg, subs, rl>>

\* the state of the HTTP API beside the job pipeline
apiVars == <<subs, rl>>

----------------------------------------------------------------------------
(* Bounds of the model *)

\* tool-calling rounds the model may ask for in one arun (the loop has no cap)
MaxRounds == 2
\* tool calls the model may request in one arun, over all its rounds
MaxCalls == 3
\* model-invocation failures in one arun
MaxAttempts == 2
\* executions of run_agent_job for the job (first delivery, retries, duplicates)
MaxExecs == 2
\* rounds and tool calls of an arun when the task may be executed again
JobRounds == 1
JobCalls == 1
\* rounds and tool calls of an arun whose calls carry argument payloads
ArgRounds == 1
MaxArgCalls == 2

\* copies of a deliver_webhook task message the queue may deliver besides the
\* original (at-least-once delivery)
MaxDups == 1
\* executions of deliver_webhook in which a commit fails
MaxDbFails == 1

\* arun executions in progress at once in one worker process
MaxActivations == 2
\* model responses in one of several concurrent arun executions
MaxConvRounds == 2

\* threads that call the registry at once
MaxThreads == 2
\* calls of the registry's methods, over all threads
MaxRegCalls == 2

\* retry_kwargs={"max_retries": 3}
max_retries == 3
\* deliver_webhook: max_retries=6
deliver_max_retries == 6
\* the ceiling of the countdown, line 137
MaxCountdown == 600

----------------------------------------------------------------------------
(* Python values *)

None == [tag |-> "none", val |-> ""]
Str(s) == [tag |-> "str", val |-> s]
\* a JSON object returned by a tool, e.g. {"v": 1}
Doc(d) == [tag |-> "doc", val |-> d]
\* the dict {"error": m}
ErrDoc(m) == [tag |-> "errdoc", val |-> m]
\* a value json.dumps cannot serialise (a set, bytes, an object)
Obj == [tag |-> "obj", val |-> "set"]

\* the dict {} and a JSON array, e.g. [1]
EmptyDict == Doc("")
List(l) == [tag |-> "list", val |-> l]

\* bool(v) for the values the code tests: None, "" and {} are falsy
Truthy(v) == ~(v.tag = "none" \/ (v.tag \in {"str", "doc"} /\ v.val = ""))

\* an exception: its type, the call that raised it, str(e)
NoExc == [type |-> "none", origin |-> "", msg |-> ""]
Exc(t, o, m) == [type |-> t, origin |-> o, msg |-> m]


----------------------------------------------------------------------------
(* Inputs the environment supplies *)

\* webhook_url: absent, or a URL
WebhookUrls == {None, Str("http://hook")}
\* what REGISTRY.get(pack, agent) and builder(r, tenant_id) do in the worker:
\* "loop": a build_loop Runner; "unsupported": an object with no arun/run that
\* is not callable; "keyerror": get raises; "builderror": the builder raises
Resolutions == {"loop", "unsupported", "keyerror", "builderror"}
\* should_retry given to build_loop: none, a predicate (error, attempt) -> bool,
\* or KeywordResearcher's one-parameter `lambda s: False`
RetryKinds == {"none", "pred", "lambda1"}
\* str(e) of a failing model invocation
ModelErrMsgs == {"", "llm down"}
\* getattr(ai, "content", ""): absent/None, empty, a text
Contents == {None, Str(""), Str("answer")}
\* the names in tool_map
ToolNames == {"lookup"}
\* one requested tool call: tc["name"], tc["function"]["name"], tc["args"] and
\* tc["function"]["arguments"]
ToolCall(name, function_name, args, arguments) ==
    [name |-> name, function_name |-> function_name, args |-> args,
     arguments |-> arguments]
\* calls with no argument payload
ToolCalls == {ToolCall(Str("lookup"), None, None, None),
              ToolCall(Str("nosuch"), None, None, None),
              ToolCall(None, None, None, None)}
\* calls of the known tool with the argument payloads a model may send: a
\* dict or none under "args"; under "arguments" a string that is a JSON
\* object, is not JSON, is a JSON array, or is empty
ArgCalls == {ToolCall(Str("lookup"), None, None, None),
             ToolCall(Str("lookup"), None, Doc("q"), Str("{oops")),
             ToolCall(Str("lookup"), None, None, Str("{\"q\": 1}")),
             ToolCall(Str("lookup"), None, None, Str("{oops")),
             ToolCall(Str("lookup"), None, None, Str("[1]")),
             ToolCall(Str("lookup"), None, EmptyDict, Str(""))}
\* what a tool does when called: return a value or raise
ToolOutcomes == {[kind |-> "return", v |-> None],
                 [kind |-> "return", v |-> Doc("v1")],
                 [kind |-> "return", v |-> Obj],
                 [kind |-> "raise", v |-> Str("tool failed")]}

CallSeqs(n) == UNION {[1..k -> ToolCalls] : k \in 0..n}
ArgCallSeqs(n) == UNION {[1..k -> ArgCalls] : k \in 0..n}

\* HTTP status codes the receiver may answer with
Statuses == {199, 200, 299, 300}
\* how the POST of line 110 ends: a response, or an exception (connection
\* refused, timeout)
Responses ==
    {[kind |-> "response", status |-> st] : st \in Statuses} \cup
    {[kind |-> "error", status |-> 0]}
\* how the installed httpx encodes `json=payload`: with the separators "," and
\* ":" (0.28 and later), or with json.dumps' defaults ", " and ": " (before)
BodyStyles == {"compact", "spaced"}
\* how the commits of deliver_webhook's session go: all succeed, the first
\* fails and the next succeeds, or all fail
CommitOutcomes == {"ok", "fails_once", "fails"}

\* the task arguments tenant_id and job_id of run_agent_job
TenantId == "tenant-1"
JobId == "job-1"

\* a payload dict is a function from its keys to their values; the empty dict
NoPayload == [k \in {} |-> ""]
\* what a submitted payload may hold under each key: an input field, and ids
\* of another tenant and another job
PayloadValue(k) ==
    CASE k = "tenant_id" -> "tenant-2"
      [] k = "job_id" -> "job-2"
      [] OTHER -> "x"
\* the submitted input payloads
Payloads ==
    {[k \in keys |-> PayloadValue(k)] : keys \in SUBSET {"q", "tenant_id", "job_id"}}

Configs ==
    {[webhook_url |-> w, resolve |-> r, should_retry |-> s, system |-> y,
      payload |-> NoPayload] :
        w \in WebhookUrls, r \in Resolutions, s \in RetryKinds, y \in BOOLEAN}

----------------------------------------------------------------------------
(* Rows and messages *)

\* Job row; status defaults to "queued". "absent": no row with this id.
NewJob == [status |-> "queued", output_json |-> [present |-> FALSE, result |-> None],
           error |-> None]
AbsentJob == [NewJob EXCEPT !.status = "absent"]

Event(step, status) == [step |-> step, status |-> status]

\* a message on jobs:{job_id}: a step envelope or a job notice
StepMsg(ev, id) ==
    [event |-> "step", step |-> ev.step, status |-> ev.status, id |-> id, error |-> None]
Notice(kind, err) ==
    [event |-> kind, step |-> "", status |-> "", id |-> 0, error |-> err]

Message(type, rnd, content, name) ==
    [type |-> type, round |-> rnd, content |-> content, name |-> name]

\* history of the current execution of the task (not program state):
\*   start      Len(events) when arun began
\*   exc        the exception caught at line 32 or 49 of celery_app.py: raised
\*              by the resolution, the construction or the runner
\*   modelExc   the exception of the latest failed model invocation, and
\*   pred       what should_retry did for it: "absent" (no predicate), "true",
\*              "false", or "raised"
\*   returned   arun returned; final is the value it returned and text the
\*              content of the model response it returned on
\*   lastRound  while arun runs and once it has returned: the results of the
\*              calls processed so far in the latest round that requested tools
\*   requested  tool calls requested so far; invoked: tool functions called
\*   notice     the job notice published by this execution
\*   delivery   the id of the WebhookDelivery row created by this execution
NoRun == [start |-> 0, exc |-> NoExc, returned |-> FALSE, final |-> None,
          text |-> None, lastRound |-> <<>>, requested |-> 0, invoked |-> 0,
          notice |-> "", delivery |-> 0, raised |-> NoExc,
          modelExc |-> NoExc, pred |-> "", args |-> None,
          failures |-> 0, carried |-> 0, passed |-> 0,
          ids |-> [tenant |-> "", job |-> ""], shown |-> NoPayload]
\*   ids        the tenant_id and job_id arun passes to emit_event
\*   shown      the user payload arun puts into the user message
\*   failures   the model invocations of this arun that failed so far
\*   carried    how many of them had failed when the latest round began
\*   passed     the attempt argument of the latest call of should_retry
\*              (all three kept while arun runs and when a model failure ends it)
\*   args       the keyword arguments of the latest call of a known tool
\*   raised     the exception that left run_agent_job, if any

\* the copies of the deliver_webhook message: 0 is the one enqueue_delivery sent
Chains == 0..MaxDups

\* history of the delivery attempts (not program state):
\*   posts    POST requests made so far; ok: one was answered with success
\*   dbfails  executions of deliver_webhook so far in which a commit failed
\*   commit   how the commits of the latest execution went, and
\*   failed   whether its POST failed, with
\*   status   the status code of the response (0: no response)
\*   wire     the X-Agentic-Signature header and the body of the latest POST
\*   dups     copies of the task message made by the queue so far
\*   tries    executions of the task so far, per copy of the message
\*   delays   the countdowns given to self.retry so far, per copy
NoHttp == [posts |-> 0, ok |-> FALSE, dbfails |-> 0, commit |-> "", failed |-> FALSE,
           status |-> 0, wire |-> [sig |-> <<>>, body |-> ""],
           dups |-> 0,
           tries |-> [c \in Chains |-> 0], delays |-> [c \in Chains |-> <<>>]]

----------------------------------------------------------------------------
(* app/services/db.py *)

\* the components that open storage sessions
Components == {"emit_event", "enqueue_delivery", "run_agent_job", "deliver_webhook"}

NoSql == [c \in Components |-> <<>>]

\* tenant_session(tenant_id): set_config is executed before the session is
\* yielded to the body, which issues `ops`
tenant_session(ops) == <<"set_config">> \o ops

----------------------------------------------------------------------------
(* app/services/events.py *)

\* lines 9-12: the statements of emit_event's session
EmitSql == [sql EXCEPT !["emit_event"] = tenant_session(<<"insert", "commit">>)]

\* How a sequence of n emit_event calls goes: all succeed (at = 0), or call
\* number `at` fails, in the store commit or in the channel publish.
EmitFailures(n) ==
    {[at |-> 0, kind |-> "ok"]} \cup
    {[at |-> i, kind |-> k] : i \in 1..n, k \in {"store", "publish"}}

\* emit_event with the envelope published before the row is committed
emit_event_PublishFirst(st, ev, outcome) ==
    IF st.exc # NoExc THEN st
    ELSE IF outcome = "publish"
    THEN [st EXCEPT !.exc = Exc("RedisError", "emit_event", "redis down")]
    ELSE IF outcome = "store"
    THEN [st EXCEPT !.channel = Append(@, StepMsg(ev, Len(st.events) + 1)),
                    !.exc = Exc("DBAPIError", "emit_event", "db down")]
    ELSE [st EXCEPT !.events = Append(@, ev),
                    !.channel = Append(@, StepMsg(ev, Len(st.events) + 1))]

\* emit_event on st = [events, channel, exc]: the row is added and committed,
\* then the envelope, carrying the row's id, is published. A failure raises.
emit_event(st, ev, outcome) ==
    IF st.exc # NoExc THEN st
    ELSE IF outcome = "store"
    THEN [st EXCEPT !.exc = Exc("DBAPIError", "emit_event", "db down")]
    ELSE IF outcome = "publish"
    THEN [st EXCEPT !.events = Append(@, ev),
                    !.exc = Exc("RedisError", "emit_event", "redis down")]
    ELSE [st EXCEPT !.events = Append(@, ev),
                    !.channel = Append(@, StepMsg(ev, Len(st.events) + 1))]

\* the emit_event calls of one step of the loop, in order, under failure f
RECURSIVE Emits(_, _, _, _)
Emits(st, evs, f, i) ==
    IF i > Len(evs) THEN st
    ELSE Emits(emit_event(st, evs[i], IF f.at = i THEN f.kind ELSE "ok"), evs, f, i + 1)

Emitted(evs, f) == Emits([events |-> events, channel |-> channel, exc |-> NoExc], evs, f, 1)

----------------------------------------------------------------------------
(* The task queue *)

\* the executions of arun, and the Runner objects build_loop returned: r1 was
\* built with a system prompt, r2 without
Activations == {"e" \o ToString(i) : i \in 1..MaxActivations}
Runners == {"r1", "r2"}
RunnerSystem(r) == r = "r1"
\* the user payload in the state argument of execution e
ConvInput(e) == "input of " \o e

\* a message object; `by` is the execution whose statement created it
TaggedMsg(type, by, text) == [type |-> type, by |-> by, text |-> text]

\* the frame of an execution of arun: where it stands, the Runner it was
\* called on, its state argument, the tool calls of ai still to process, and
\* the model responses it received
NoFrame == [pc |-> "idle", runner |-> "", input |-> "", pending |-> 0, round |-> 0]

\* MsgsCell with the list kept on the Runner object (self.msgs)
MsgsCell_OnRunner(e, r) == r

\* the storage cell the name `msgs` of execution e denotes: line 20 binds a
\* local of the call, so every execution has a cell of its own
MsgsCell(e, r) == e

\* the executions (all idle) and the list held in every storage cell
NoConv == [frames |-> [e \in Activations |-> NoFrame],
           cells |-> [c \in Activations \cup Runners |-> <<>>]]

\* the threads of the process that use REGISTRY
Threads == {"t" \o ToString(i) : i \in 1..MaxThreads}
\* builders passed to register and set
Builders == {"b1", "b2"}
\* the (pack, agent) arguments of the calls, as sequences of characters
RawPairs == {<<<<"s">>, <<"k">>>>, <<<<"s">>, <<"c">>>>, <<<<" ", "s">>, <<"c", " ">>>>}

\* str.strip(): leading and trailing blanks removed
RECURSIVE LStrip(_)
LStrip(s) == IF s # <<>> /\ Head(s) = " " THEN LStrip(Tail(s)) ELSE s
RECURSIVE RStrip(_)
RStrip(s) == IF s # <<>> /\ s[Len(s)] = " " THEN RStrip(SubSeq(s, 1, Len(s) - 1)) ELSE s
Strip(s) == RStrip(LStrip(s))

\* registry.py lines 18, 26, 31: key = (pack.strip(), agent.strip())
KeyOf(raw) == <<Strip(raw[1]), Strip(raw[2])>>
Keys == {KeyOf(raw) : raw \in RawPairs}

\* _map after the module is imported: lines 53-59 find no doc2deck pack and
\* pass, line 64 sets the SEO pack's builder
BuiltIn == [k \in {<<<<"s">>, <<"k">>>>} |-> "KeywordResearcher.build"]

\* what a call returned or raised
Res(kind, val) == [kind |-> kind, val |-> val]
NoRes == Res("none", "")

\* a thread: where it stands in its call, the method and its arguments, the
\* key, whether it is inside the list() of line 36, what its latest call
\* returned or raised, and whether that call began while another was running
NoThread == [pc |-> "idle", op |-> "", raw |-> <<>>, key |-> <<>>, builder |-> "",
             inner |-> FALSE, res |-> NoRes, overlap |-> FALSE]

\* the RLock of line 14: its owner and how often the owner holds it
NoLock == [owner |-> "", count |-> 0]

\* REGISTRY, its callers, and the history of the calls (not program state):
\*   calls    calls begun so far
\*   stored   the (key, builder) pairs written into _map so far
\*   regOk    per key, the register calls that returned normally
\*   first    per key, the builder of the first register call that returned
\*   setOn    per key, whether set has written it
InitReg ==
    [map |-> BuiltIn, lock |-> NoLock, th |-> [t \in Threads |-> NoThread],
     calls |-> 0,
     stored |-> {<<k, BuiltIn[k]>> : k \in DOMAIN BuiltIn},
     regOk |-> [k \in Keys |-> 0],
     first |-> [k \in Keys |-> ""],
     setOn |-> [k \in Keys |-> FALSE]]

\* the locals of arun before its first statement and after it is left
NoAi == [content |-> None, tool_calls |-> <<>>]

\* the clients that open event streams
MaxSubscribers == 1
Subscribers == 1..MaxSubscribers
\* the tenants that authenticate and the job ids they ask for; the job of
\* this model is JobId and belongs to TenantId
Tenants == {"tenant-1", "tenant-2"}
JobIds == {"job-1", "job-2"}

\* no stream open:
\*   tenant     the tenant get_tenant authenticated
\*   channel    the channel the stream subscribed to
\*   from       the messages of the job's channel published before subscribing
\*   got        the messages the stream has yielded to the client
NoSub == [tenant |-> "", channel |-> <<>>, from |-> 0, got |-> <<>>]
NoSubs == [s \in Subscribers |-> NoSub]

\* concurrent calls of check_rate_limit, all of one tenant and one user
MaxLimitCalls == 3
LimitCalls == 1..MaxLimitCalls
\* the counters rl:tenant:{tenant_id} and rl:user:{user_id}
LimitKeys == {"tenant", "user"}

\* a call that has not begun:
\*   pc         where the call stands
\*   user       whether a user_id was passed
\*   key        the key _allow is working on
\*   current    the value INCR returned
\*   bumped     the keys this call has incremented
\*   outcome    how the call ended: "ok", "429" or "error"
NoCall == [pc |-> "idle", user |-> FALSE, key |-> "", current |-> 0,
           bumped |-> {}, outcome |-> ""]

\* Redis without counters:
\*   count      the value of each key, 0 for a key that does not exist
\*   ttl        whether the key has an expiry
\*   admitted   the calls _allow has allowed on the key since it was created
\*   creator    the call whose INCR created the key, 0 for no key
NoLimiter == [count |-> [k \in LimitKeys |-> 0],
              ttl |-> [k \in LimitKeys |-> FALSE],
              admitted |-> [k \in LimitKeys |-> 0],
              creator |-> [k \in LimitKeys |-> 0],
              call |-> [c \in LimitCalls |-> NoCall]]

\* everything but the task's arguments
InitState ==
    /\ pc = "queued"
    /\ execs = 0
    /\ retries = 0
    /\ sess = job
    /\ deliveries = <<>>
    /\ dispatched = {}
    /\ events = <<>>
    /\ channel = <<>>
    /\ result = None
    /\ error = None
    /\ msgs = <<>>
    /\ attempt = 0
    /\ last_tool_result = None
    /\ ai = NoAi
    /\ tci = 0
    /\ round = 0
    /\ run = NoRun
    /\ tasks = {}
    /\ http = NoHttp
    /\ sql = NoSql
    /\ conv = NoConv
    /\ reg = InitReg
    /\ subs = NoSubs
    /\ rl = NoLimiter

InitRest ==
    /\ cfg \in {c \in Configs :
                  c.resolve # "loop" => (c.should_retry = "none" /\ ~c.system)}
    /\ InitState

\* the job pipeline: the task may be executed again, each arun is short
Init ==
    /\ lim = [rounds |-> JobRounds, calls |-> JobCalls, execs |-> MaxExecs]
    /\ job \in {NewJob, AbsentJob}
    /\ InitRest

\* the conversation loop: one execution of the task, with a longer arun
InitLoop ==
    /\ lim = [rounds |-> MaxRounds, calls |-> MaxCalls, execs |-> 1]
    /\ job = NewJob
    /\ InitRest
    /\ cfg.webhook_url = None

loopVars == <<msgs, attempt, last_tool_result, ai, tci, round>>

\* arun's locals: msgs as given, the others as lines 28-29 set them
SetLocals(m) ==
    /\ msgs' = m
    /\ attempt' = 0
    /\ last_tool_result' = None
    /\ ai' = NoAi
    /\ tci' = 0
    /\ round' = 0

\* no arun is running
ClearLocals == SetLocals(<<>>)

\* An exception leaves run_agent_job: autoretry_for=(Exception,) re-queues the
\* task until max_retries is used up; the open session is discarded.
TaskRaises(r, e) ==
    /\ pc' = IF retries < max_retries THEN "queued" ELSE "dead"
    /\ retries' = IF retries < max_retries THEN retries + 1 ELSE retries
    /\ sess' = job
    /\ run' = [r EXCEPT !.raised = e]

----------------------------------------------------------------------------
(* app/agents/loop.py: build_loop.Runner.arun *)

\* a or b
PyOr(a, b) == IF Truthy(a) THEN a ELSE b

\* Enriched in which the keys of the payload win over the task's arguments
Enriched_PayloadWins(payload, tid, jid) ==
    [k \in DOMAIN payload \cup {"tenant_id", "job_id"} |->
        IF k \in DOMAIN payload THEN payload[k]
        ELSE IF k = "tenant_id" THEN tid ELSE jid]

\* celery_app.py line 37: {**payload, "tenant_id": tenant_id, "job_id": job_id}
Enriched(payload, tid, jid) ==
    [k \in DOMAIN payload \cup {"tenant_id", "job_id"} |->
        IF k = "tenant_id" THEN tid
        ELSE IF k = "job_id" THEN jid ELSE payload[k]]

\* dict.get(k, default)
Get(d, k, default) == IF k \in DOMAIN d THEN d[k] ELSE default

\* loop.py lines 17-18: the ids arun gives to every emit_event
LoopIds(state) == [tenant |-> Get(state, "tenant_id", "unknown"),
                   job |-> Get(state, "job_id", "ad-hoc")]

\* loop.py line 23: the state without the keys tenant_id and job_id
UserPayload(state) == [k \in DOMAIN state \ {"tenant_id", "job_id"} |-> state[k]]

\* msgs after lines 20-24: the optional system message, then the user message
InitialMsgs ==
    (IF cfg.system THEN <<Message("system", 0, Str("system"), "")>> ELSE <<>>)
    \o <<Message("human", 0, Str("Input"), "")>>

\* line 55: name = tc.get("name") or tc.get("function", {}).get("name")
CallName(tc) == PyOr(tc.name, tc.function_name)

\* line 56: tc.get("args") or tc.get("function", {}).get("arguments") or "{}"
RawArgs(tc) == PyOr(PyOr(tc.args, tc.arguments), Str("{}"))

\* json.loads(s) for the strings of the model: whether it returns, and what
JsonLoads(s) ==
    CASE s = "{}" -> [ok |-> TRUE, v |-> EmptyDict]
      [] s = "{\"q\": 1}" -> [ok |-> TRUE, v |-> Doc("q")]
      [] s = "[1]" -> [ok |-> TRUE, v |-> List("[1]")]
      [] OTHER -> [ok |-> FALSE, v |-> None]

\* LoadsOrEmpty that hands the unparsed string on
LoadsOrEmpty_KeepsRaw(s) == Str(s)

\* lines 58-61: args = json.loads(raw_args), or {} when that raises
LoadsOrEmpty(s) == IF JsonLoads(s).ok THEN JsonLoads(s).v ELSE EmptyDict

\* lines 56-63: the value bound to args
Args(tc) ==
    LET raw == RawArgs(tc)
    IN  IF raw.tag = "str" THEN LoadsOrEmpty(raw.val) ELSE PyOr(raw, EmptyDict)

\* fn(**args) binds only a mapping; for anything else line 73 raises TypeError
Mapping(v) == v.tag = "doc"

\* lines 65-66: fn = tool_map.get(name); `not fn` is false for a mapped name
Known(name) == name.tag = "str" /\ name.val \in ToolNames

\* UnknownErr with the message put under another key
UnknownErr_NoErrorField(name) == Doc("Unknown tool")

\* line 67: {"error": f"Unknown tool '{name}'"}
UnknownErr(name) ==
    ErrDoc("Unknown tool '" \o (IF name.tag = "none" THEN "None" ELSE name.val) \o "'")

\* lines 72-77: the value bound to res for a known tool
ToolRes(o) == IF o.kind = "raise" THEN ErrDoc(o.v.val) ELSE o.v

\* lines 72-77 when args is no mapping: the TypeError of the call is caught
NotMappingErr == ErrDoc("argument after ** must be a mapping")

\* json.dumps(res) raises TypeError for a value it cannot serialise
Serialisable(v) == v.tag # "obj"

\* AppendAi left out: the transcript goes on without the response
AppendAi_Skipped(m, rnd, content) == m

\* line 41: msgs.append(ai)
AppendAi(m, rnd, content) == Append(m, Message("ai", rnd, PyOr(content, Str("")), ""))

\* PlanEvents with (act, started) emitted where line 95 emits (act, finished)
PlanEvents_NoFinished(calls) == <<Event("plan", "finished"), Event("act", "started")>>

\* lines 47-53 and 95: the events of a model response, in order
PlanEvents(calls) ==
    <<Event("plan", "finished"),
      IF calls # <<>> THEN Event("act", "started") ELSE Event("act", "finished")>>

\* Final without the fallback to the content of the response
Final_IgnoresContent(ltr, content) == IF ltr # None THEN ltr ELSE Str("")

\* line 94
Final(ltr, content) == IF ltr # None THEN ltr ELSE PyOr(content, Str(""))

\* celery_app.py lines 49-50: an exception leaving the runner becomes `error`;
\* the locals of arun are gone
ArunRaises(r, e) ==
    /\ error' = Str(e.msg)
    /\ pc' = "persist"
    /\ run' = [r EXCEPT !.exc = e, !.lastRound = <<>>,
                        !.failures = IF e.origin \in {"ainvoke", "should_retry"}
                                     THEN @ ELSE 0,
                        !.carried = IF e.origin \in {"ainvoke", "should_retry"}
                                    THEN @ ELSE 0,
                        !.passed = IF e.origin \in {"ainvoke", "should_retry"}
                                   THEN @ ELSE 0]
    /\ ClearLocals

\* celery_app.py line 40: the value arun returned becomes `result`
ArunReturns(r, v) ==
    /\ result' = v
    /\ pc' = "persist"
    /\ run' = [r EXCEPT !.returned = TRUE, !.final = v, !.failures = 0,
                        !.carried = 0, !.passed = 0]
    /\ ClearLocals

\* str(e) of what REGISTRY.get (registry.py line 36) or the builder raises
ResolveErrMsgs(kind) ==
    IF kind = "keyerror"
    THEN {"'Unknown agent: seo_factory/keyword_researcher. Registered: {}'"}
    ELSE {"", "boom"}

\* UnknownAgentErr with the text of the exception alone
UnknownAgentErr_Bare(m) == Str(m)

\* celery_app.py line 33: f"Unknown agent {pack}/{agent}: {e}"
UnknownAgentErr(m) == Str("Unknown agent seo_factory/keyword_researcher: " \o m)

\* celery_app.py lines 22-40 and loop.py lines 17-29: the task starts, the
\* agent is resolved and arun runs up to its first model invocation
StartTask ==
    /\ pc = "queued"
    /\ execs < lim.execs
    /\ execs' = execs + 1
    /\ UNCHANGED <<apiVars, conv, reg, lim, cfg, job, deliveries, dispatched, tasks, http>>
    /\ \/ \* line 23: the publish of the started notice fails
          /\ TaskRaises(NoRun, Exc("RedisError", "publish", "redis down"))
          /\ ClearLocals
          /\ UNCHANGED <<events, channel, result, error, sql>>
       \/ \* lines 29-34: resolution or construction raises
          /\ cfg.resolve \in {"keyerror", "builderror"}
          /\ channel' = Append(channel, Notice("started", None))
          /\ \E m \in ResolveErrMsgs(cfg.resolve) :
                /\ error' = UnknownAgentErr(m)
                /\ run' = [NoRun EXCEPT !.exc = Exc("Exception", cfg.resolve, m)]
          /\ result' = None
          /\ pc' = "persist"
          /\ ClearLocals
          /\ UNCHANGED <<events, retries, sess, sql>>
       \/ \* line 48: the runner has no arun/run and is not callable
          /\ cfg.resolve = "unsupported"
          /\ channel' = Append(channel, Notice("started", None))
          /\ error' = Str("Agent runner type is not supported")
          /\ result' = None
          /\ pc' = "persist"
          /\ run' = NoRun
          /\ ClearLocals
          /\ UNCHANGED <<events, retries, sess, sql>>
       \/ \* line 40: arun starts; loop.py lines 17-29
          /\ cfg.resolve = "loop"
          /\ \E f \in EmitFailures(1) :
                LET st == [events |-> events,
                           channel |-> Append(channel, Notice("started", None)),
                           exc |-> NoExc]
                    em == emit_event(st, Event("plan", "started"), f.kind)
                    enriched == Enriched(cfg.payload, TenantId, JobId)
                    r == [NoRun EXCEPT !.start = Len(events),
                                       !.ids = LoopIds(enriched),
                                       !.shown = UserPayload(enriched)]
                IN  /\ events' = em.events
                    /\ channel' = em.channel
                    /\ result' = None
                    /\ IF em.exc = NoExc
                       THEN /\ pc' = "plan"
                            /\ run' = r
                            /\ error' = None
                            /\ SetLocals(InitialMsgs)
                       ELSE ArunRaises(r, em.exc)
          /\ sql' = EmitSql
          /\ UNCHANGED <<retries, sess>>

\* NextAttempt that counts from one again at every failure
NextAttempt_Restart(a) == 1

\* line 35: attempt += 1
NextAttempt(a) == a + 1

\* loop.py lines 32-38: the model invocation fails with message m; `retry` is
\* what a two-parameter predicate returns for (exc, attempt)
ModelFails(m, retry) ==
    /\ pc = "plan"
    /\ attempt < MaxAttempts
    /\ UNCHANGED <<apiVars, conv, reg, lim, cfg, execs, retries, job, sess, deliveries, dispatched, events,
                   channel, result, tasks, http, sql>>
    /\ LET exc == Exc("ModelError", "ainvoke", m)
           r == [run EXCEPT !.modelExc = exc,
                            !.failures = @ + 1,
                            !.passed = IF cfg.should_retry = "none"
                                       THEN @ ELSE NextAttempt(attempt),
                            !.pred = CASE cfg.should_retry = "none" -> "absent"
                                       [] cfg.should_retry = "lambda1" -> "raised"
                                       [] OTHER -> IF retry THEN "true" ELSE "false"]
       IN  IF cfg.should_retry = "lambda1"
           THEN \* should_retry(exc, attempt) on `lambda s: False` raises TypeError
                ArunRaises(r, Exc("TypeError", "should_retry",
                             "<lambda>() takes 1 positional argument but 2 were given"))
           ELSE IF cfg.should_retry = "pred" /\ retry
           THEN \* continue: the model is invoked again with the same msgs
                /\ attempt' = NextAttempt(attempt)
                /\ run' = r
                /\ UNCHANGED <<pc, error, msgs, last_tool_result, ai, tci, round>>
           ELSE \* raise
                ArunRaises(r, exc)

\* RoundAllowed for a loop that stops asking for tools after its first round
RoundAllowed_Capped(n) == n < 1

\* line 31, `while True:`: the loop goes round again after n rounds, whatever n
RoundAllowed(n) == TRUE

\* loop.py lines 33, 41-53 and 94-96: the model answers with text `content`
\* and the tool calls `calls`
ModelResponds(content, calls) ==
    /\ pc = "plan"
    /\ round < lim.rounds \/ calls = <<>>
    /\ calls # <<>> => RoundAllowed(round)
    /\ run.requested + Len(calls) <= lim.calls
    /\ calls # <<>> => content = Str("")
    /\ sql' = EmitSql
    /\ UNCHANGED <<apiVars, conv, reg, lim, cfg, execs, retries, job, sess, deliveries, dispatched, tasks, http>>
    /\ \E f \in EmitFailures(2) :
          LET final == Final(last_tool_result, content)
              em == Emitted(PlanEvents(calls), f)
              r == [run EXCEPT !.text = content]
          IN  /\ events' = em.events
              /\ channel' = em.channel
              /\ IF em.exc # NoExc
                 THEN /\ ArunRaises(r, em.exc)
                      /\ UNCHANGED result
                 ELSE IF calls # <<>>
                 THEN /\ pc' = "act"
                      /\ msgs' = AppendAi(msgs, round + 1, content)
                      /\ ai' = [content |-> content, tool_calls |-> calls]
                      /\ round' = round + 1
                      /\ tci' = 1
                      /\ run' = [r EXCEPT !.lastRound = <<>>,
                                          !.requested = @ + Len(calls),
                                          !.carried = r.failures]
                      /\ UNCHANGED <<result, error, attempt, last_tool_result>>
                 ELSE /\ ArunReturns(r, final)
                      /\ UNCHANGED error

\* RoundDone that leaves the round after its first call
RoundDone_AfterFirst(i, calls) == TRUE

\* line 54, `for tc in tool_calls:`: the round is over after the last call
RoundDone(i, calls) == i = Len(calls)

\* loop.py lines 91 and 54: after a call, the next call of the round or the
\* next model invocation
NextCall(r) ==
    /\ run' = r
    /\ IF RoundDone(tci, ai.tool_calls)
       THEN pc' = "plan" /\ tci' = 0
       ELSE pc' = "act" /\ tci' = tci + 1
    /\ UNCHANGED <<result, error, attempt, ai, round>>

\* loop.py lines 55-70: the requested name is not in tool_map
ActUnknown ==
    /\ pc = "act"
    /\ sql' = EmitSql
    /\ UNCHANGED <<apiVars, conv, reg, lim, cfg, execs, retries, job, sess, deliveries, dispatched, tasks, http>>
    /\ LET name == CallName(ai.tool_calls[tci])
           err == UnknownErr(name)
       IN  /\ ~Known(name)
           /\ \E f \in EmitFailures(1) :
                 LET em == Emitted(<<Event("act", "progress")>>, f)
                     r == [run EXCEPT !.lastRound = Append(@, err)]
                 IN  /\ events' = em.events
                     /\ channel' = em.channel
                     /\ IF em.exc # NoExc
                        THEN ArunRaises(r, em.exc) /\ UNCHANGED result
                        ELSE /\ msgs' = Append(msgs, Message("tool", round, err,
                                                    PyOr(name, Str("tool")).val))
                             /\ UNCHANGED last_tool_result
                             /\ NextCall(r)

\* loop.py lines 55-65 and 72-88: the tool is called and does o
ActKnown(o) ==
    /\ pc = "act"
    /\ UNCHANGED <<apiVars, conv, reg, lim, cfg, execs, retries, job, sess, deliveries, dispatched, tasks, http>>
    /\ LET name == CallName(ai.tool_calls[tci])
           args == Args(ai.tool_calls[tci])
           res == IF Mapping(args) THEN ToolRes(o) ELSE NotMappingErr
           r == [run EXCEPT !.lastRound = Append(@, res),
                            !.invoked = IF Mapping(args) THEN @ + 1 ELSE @,
                            !.args = args]
       IN  /\ Known(name)
           /\ ~Mapping(args) => o.kind = "raise"
           /\ IF ~Serialisable(res)
              THEN \* line 83: json.dumps(res) raises outside the try of line 72
                   /\ ArunRaises(r, Exc("TypeError", "json.dumps",
                                   "Object of type set is not JSON serializable"))
                   /\ UNCHANGED <<events, channel, result, sql>>
              ELSE \E f \in EmitFailures(1) :
                      LET em == Emitted(<<Event("act", "progress")>>, f)
                      IN  /\ sql' = EmitSql
                          /\ events' = em.events
                          /\ channel' = em.channel
                          /\ IF em.exc # NoExc
                             THEN ArunRaises(r, em.exc) /\ UNCHANGED result
                             ELSE /\ msgs' = Append(msgs, Message("tool", round, res, name.val))
                                  /\ last_tool_result' = res
                                  /\ NextCall(r)

----------------------------------------------------------------------------
(* app/services/webhooks.py and app/workers/celery_app.py lines 53-82 *)

\* webhooks.py lines 15-24; last_error is nullable and not set
Delivery(id, event_type, payload) ==
    [id |-> id, event_type |-> event_type, payload_json |-> payload,
     status |-> "pending", attempts |-> 0, last_error |-> None]

\* json.dumps of a value of the model with the separators isep and ksep
JsonOf(v, isep, ksep) ==
    CASE v.tag = "none" -> "null"
      [] v.tag = "str" -> "\"" \o v.val \o "\""
      [] v.tag = "doc" -> "{\"v\"" \o ksep \o "1}"
      [] v.tag = "errdoc" -> "{\"error\"" \o ksep \o "\"" \o v.val \o "\"}"
      [] OTHER -> "?"

\* json.dumps of the payload of a delivery row, celery_app.py lines 69 and 78:
\* {"job_id": job_id, "error": error} or {"job_id": job_id, "result": result}
Dumps(d, isep, ksep) ==
    "{\"job_id\"" \o ksep \o "\"job-1\"" \o isep
    \o (IF d.event_type = "job.failed" THEN "\"error\"" ELSE "\"result\"")
    \o ksep \o JsonOf(d.payload_json, isep, ksep) \o "}"

\* settings.WEBHOOK_HMAC_SECRET or "change-me"
Secret == "change-me"

\* hmac.new(secret, body, sha256).hexdigest(), as an ideal keyed hash: the
\* digest stands for the pair it was computed from
Hmac(secret, body) == <<secret, body>>

\* webhooks.py lines 7-10
sign_payload(d) == <<"sha256=", Hmac(Secret, Dumps(d, ",", ":"))>>

\* the bytes httpx sends for json=payload, celery_app.py lines 110-112
PostBody(d, style) ==
    IF style = "compact" THEN Dumps(d, ",", ":") ELSE Dumps(d, ", ", ": ")

\* a deliver_webhook task message: its argument, self.request.retries, and the
\* copy of the message it descends from (0: the one enqueue_delivery sent)
Task(id, k, chain) == [id |-> id, retries |-> k, chain |-> chain]

\* celery_app.py lines 55-59 and webhooks.py line 14: the statements issued in
\* run_agent_job's session and, when it is called, in enqueue_delivery's
PersistSql(called) ==
    [sql EXCEPT !["run_agent_job"] = <<"set_config", "select">>,
                !["enqueue_delivery"] =
                    IF called THEN tenant_session(<<"insert", "commit">>) ELSE @]

\* Found for a reader that takes every id as found
Found_Always(j) == TRUE

\* celery_app.py lines 60-61: `if job:` after scalar_one_or_none()
Found(j) == j.status # "absent"

\* JobOutcome that writes the status running
JobOutcome_Running(err) == "running"

\* JobOutcome that records every run as failed
JobOutcome_AlwaysFailed(err) == "failed"

\* celery_app.py lines 62-63 and 71-72: `if error:` chooses the status
JobOutcome(err) == IF Truthy(err) THEN "failed" ELSE "succeeded"

\* celery_app.py lines 53-79: the job row is read and changed in the session,
\* the notice is published, and enqueue_delivery commits its row in a session
\* of its own and dispatches deliver_webhook; `out` is how that goes
Persist(out) ==
    /\ pc = "persist"
    /\ UNCHANGED <<apiVars, conv, reg, lim, cfg, execs, job, events, result, error, loopVars, http>>
    /\ IF ~Found(job)
       THEN /\ out = "ok"
            /\ pc' = "done"
            /\ sql' = PersistSql(FALSE)
            /\ UNCHANGED <<retries, sess, deliveries, dispatched, channel, run, tasks>>
       ELSE LET kind == JobOutcome(error)
                failed == kind # "succeeded"
                row == IF failed
                       THEN [job EXCEPT !.status = kind, !.error = error]
                       ELSE [job EXCEPT !.status = kind,
                                        !.output_json = [present |-> TRUE, result |-> result]]
                id == Len(deliveries) + 1
                d == Delivery(id, "job." \o kind, IF failed THEN error ELSE result)
                hook == Truthy(cfg.webhook_url)
                r == [run EXCEPT !.notice = kind]
            IN  /\ out \in {"commit_fails", "dispatch_fails"} => hook
                /\ channel' = IF out = "publish_fails" THEN channel
                              ELSE Append(channel, Notice(kind, IF failed THEN error ELSE None))
                /\ deliveries' = IF hook /\ out \in {"ok", "dispatch_fails"}
                                 THEN Append(deliveries, d) ELSE deliveries
                /\ dispatched' = IF hook /\ out = "ok"
                                 THEN dispatched \cup {id} ELSE dispatched
                /\ tasks' = IF hook /\ out = "ok"
                            THEN tasks \cup {Task(id, 0, 0)} ELSE tasks
                /\ sql' = PersistSql(hook /\ out # "publish_fails")
                /\ IF out = "ok"
                   THEN /\ sess' = row
                        /\ pc' = "commit"
                        /\ run' = [r EXCEPT !.delivery = IF hook THEN id ELSE 0]
                        /\ UNCHANGED retries
                   ELSE IF out = "publish_fails"
                   THEN TaskRaises(run, Exc("RedisError", "publish", "redis down"))
                   ELSE IF out = "commit_fails"
                   THEN TaskRaises(r, Exc("DBAPIError", "enqueue_delivery", "db down"))
                   ELSE TaskRaises([r EXCEPT !.delivery = id],
                                   Exc("OperationalError", "delay", "broker down"))

\* celery_app.py line 80: session.commit() succeeds or raises
Commit(ok) ==
    /\ pc = "commit"
    /\ UNCHANGED <<apiVars, conv, reg, lim, cfg, execs, deliveries, dispatched, events, channel, result,
                   error, loopVars, tasks, http>>
    /\ sql' = [sql EXCEPT !["run_agent_job"] = Append(@, "commit")]
    /\ IF ok
       THEN /\ job' = sess
            /\ sess' = sess
            /\ pc' = "done"
            /\ UNCHANGED <<retries, run>>
       ELSE /\ TaskRaises(run, Exc("DBAPIError", "commit", "db down"))
            /\ UNCHANGED job

\* the queue delivers the task message of a finished execution once more
Redeliver ==
    /\ pc \in {"done", "dead"}
    /\ execs < lim.execs
    /\ pc' = "queued"
    /\ UNCHANGED <<apiVars, conv, reg, lim, cfg, execs, retries, job, sess, deliveries, dispatched, events,
                   channel, result, error, loopVars, run, tasks, http, sql>>

----------------------------------------------------------------------------
(* app/workers/celery_app.py lines 84-137: deliver_webhook *)

\* Success for a receiver that must answer 200
Success_Only200(resp) == resp.kind = "response" /\ resp.status = 200

\* line 119
Success(resp) == resp.kind = "response" /\ 200 <= resp.status /\ resp.status < 300

\* str(e) of the exception of lines 110-125
HttpErr(resp) ==
    IF resp.kind = "response"
    THEN Str("HTTP " \o ToString(resp.status) \o ": body")
    ELSE Str("connection refused")

Min(a, b) == IF a < b THEN a ELSE b

\* Countdown with the default_retry_delay of the decorator for every retry
Countdown_Fixed(k) == 30

\* line 137: min(600, 2 ** self.request.retries * 10)
Countdown(k) == Min(MaxCountdown, (2 ^ k) * 10)

\* RetryAllowed with one retry more than the decorator grants
RetryAllowed_OneMore(k) == k <= deliver_max_retries

\* self.retry re-sends the message unless request.retries + 1 > max_retries
RetryAllowed(k) == k + 1 <= deliver_max_retries

\* SentRow without the increment of line 121
SentRow_NoIncrement(d) == [d EXCEPT !.status = "sent", !.last_error = None]

\* lines 120-122
SentRow(d) == [d EXCEPT !.status = "sent", !.attempts = @ + 1, !.last_error = None]

\* lines 127-129
RetryingRow(d, err) ==
    [d EXCEPT !.status = "retrying", !.attempts = @ + 1, !.last_error = err]

\* the task message t is executed: the POST ends as resp, the commits go as db
DeliverWebhook(t, resp, db) ==
    /\ t \in tasks
    /\ db = "fails_once" => Success(resp)
    /\ db # "ok" => http.dbfails < MaxDbFails
    /\ UNCHANGED <<apiVars, conv, reg, lim, cfg, pc, execs, retries, job, sess, dispatched, events, channel,
                   result, error, loopVars, run>>
    /\ IF t.id \notin DOMAIN deliveries
       THEN \* lines 95-98: no row, return
            /\ tasks' = tasks \ {t}
            /\ sql' = [sql EXCEPT !["deliver_webhook"] = <<"select">>]
            /\ UNCHANGED <<deliveries, http>>
       ELSE LET d == deliveries[t.id]
                sent == SentRow(d)
                \* the row as the session holds it when the handler of line 126 runs
                held == IF Success(resp) THEN sent ELSE d
                err == IF Success(resp) THEN Str("db down") ELSE HttpErr(resp)
                row == IF Success(resp) /\ db = "ok" THEN sent
                       ELSE IF db = "fails" THEN d
                       ELSE RetryingRow(held, err)
                again == ~(Success(resp) /\ db = "ok") /\ RetryAllowed(t.retries)
            IN  /\ deliveries' = [deliveries EXCEPT ![t.id] = row]
                /\ tasks' = (tasks \ {t}) \cup
                            (IF again THEN {Task(t.id, t.retries + 1, t.chain)} ELSE {})
                /\ sql' = [sql EXCEPT !["deliver_webhook"] =
                              <<"select", "set_config", "commit">> \o
                              (IF Success(resp) /\ db # "ok" THEN <<"commit">> ELSE <<>>)]
                /\ \E style \in BodyStyles :
                   http' = [http EXCEPT
                              !.wire = [sig |-> sign_payload(d), body |-> PostBody(d, style)],
                              !.posts = @ + 1,
                              !.ok = @ \/ Success(resp),
                              !.dbfails = IF db = "ok" THEN @ ELSE @ + 1,
                              !.commit = db,
                              !.failed = ~Success(resp),
                              !.status = resp.status,
                              !.tries[t.chain] = @ + 1,
                              !.delays[t.chain] =
                                  IF again THEN Append(@, Countdown(t.retries)) ELSE @]

\* the queue delivers the task message t once more (at-least-once delivery)
DuplicateTask(t) ==
    /\ t \in tasks
    /\ http.dups < MaxDups
    /\ tasks' = tasks \cup {Task(t.id, t.retries, http.dups + 1)}
    /\ http' = [http EXCEPT !.dups = @ + 1]
    /\ UNCHANGED <<apiVars, conv, reg, lim, cfg, pc, execs, retries, job, sess, deliveries, dispatched, events,
                   channel, result, error, loopVars, run, sql>>

----------------------------------------------------------------------------
(* app/agents/loop.py lines 16-96: several executions of arun in one event  *)
(* loop; an execution yields to the others at every await                   *)

jobVars == <<lim, cfg, pc, execs, retries, job, sess, deliveries, dispatched, events,
             channel, result, error, msgs, attempt, last_tool_result, ai, tci,
             round, run, tasks, http, sql>>

\* the list execution e reads and appends to under the name `msgs`
Transcript(e) == conv.cells[MsgsCell(e, conv.frames[e].runner)]

\* msgs.append(m) in execution e
AppendMsg(e, m) ==
    [conv.cells EXCEPT ![MsgsCell(e, conv.frames[e].runner)] = Append(@, m)]

\* lines 20-26: arun is called on Runner r
ArunStart(e, r) ==
    /\ conv.frames[e].pc = "idle"
    /\ conv' = [frames |-> [conv.frames EXCEPT
                               ![e] = [NoFrame EXCEPT !.pc = "plan", !.runner = r,
                                                      !.input = ConvInput(e)]],
                cells |-> [conv.cells EXCEPT
                              ![MsgsCell(e, r)] =
                                  (IF RunnerSystem(r)
                                   THEN <<TaggedMsg("system", e, "system")>> ELSE <<>>)
                                  \o <<TaggedMsg("human", e, ConvInput(e))>>]]
    /\ UNCHANGED <<jobVars, reg, apiVars>>

\* lines 34-53: the model answers execution e with n tool calls
ArunModel(e, n) ==
    /\ conv.frames[e].pc = "plan"
    /\ n > 0 => conv.frames[e].round < MaxConvRounds
    /\ conv' = [frames |-> [conv.frames EXCEPT
                               ![e].pc = IF n = 0 THEN "done" ELSE "act",
                               ![e].pending = n,
                               ![e].round = @ + 1],
                cells |-> AppendMsg(e, TaggedMsg("ai", e, conv.frames[e].input))]
    /\ UNCHANGED <<jobVars, reg, apiVars>>

\* lines 34-39: the model invocation of execution e fails and arun raises
ArunModelFails(e) ==
    /\ conv.frames[e].pc = "plan"
    /\ conv' = [conv EXCEPT !.frames[e].pc = "done"]
    /\ UNCHANGED <<jobVars, reg, apiVars>>

\* lines 54-94: execution e processes one tool call of ai
ArunTool(e) ==
    /\ conv.frames[e].pc = "act"
    /\ conv' = [frames |-> [conv.frames EXCEPT
                               ![e].pc = IF conv.frames[e].pending = 1
                                         THEN "plan" ELSE "act",
                               ![e].pending = @ - 1],
                cells |-> AppendMsg(e, TaggedMsg("tool", e, conv.frames[e].input))]
    /\ UNCHANGED <<jobVars, reg, apiVars>>

----------------------------------------------------------------------------
(* app/packs/registry.py lines 6-45: AgentRegistry used by several threads *)

\* CanAcquire for a lock that never makes a thread wait
CanAcquire_Always(lock, t) == TRUE

\* threading.RLock: free, or held by the calling thread itself
CanAcquire(lock, t) == lock.owner \in {"", t}

\* leaving a `with self._lock:` block
Release(lock) ==
    IF lock.count <= 1 THEN NoLock ELSE [lock EXCEPT !.count = @ - 1]

\* the call of thread t returns or raises res
Returned(t, res) == [reg.th[t] EXCEPT !.pc = "idle", !.inner = FALSE, !.res = res]

\* thread t calls REGISTRY.op(pack, agent[, builder])
RegCall(t, op, raw, b) ==
    /\ reg.th[t].pc = "idle"
    /\ reg.calls < MaxRegCalls
    /\ reg' = [reg EXCEPT
                 !.calls = @ + 1,
                 !.th[t] = [NoThread EXCEPT
                              !.pc = "acquire", !.op = op, !.raw = raw,
                              !.key = IF op = "list" THEN <<>> ELSE KeyOf(raw),
                              !.builder = b,
                              !.overlap = \E u \in Threads \ {t} : reg.th[u].pc # "idle"]]
    /\ UNCHANGED <<jobVars, conv, apiVars>>

\* lines 19, 27, 32, 40: `with self._lock:`
Acquire(t) ==
    /\ reg.th[t].pc = "acquire"
    /\ CanAcquire(reg.lock, t)
    /\ reg' = [reg EXCEPT
                 !.lock = [owner |-> t, count |-> @.count + 1],
                 !.th[t].pc = CASE reg.th[t].inner -> "iterate"
                                [] reg.th[t].op = "register" -> "check"
                                [] reg.th[t].op = "set" -> "write"
                                [] reg.th[t].op = "get" -> "lookup"
                                [] OTHER -> "iterate"]
    /\ UNCHANGED <<jobVars, conv, apiVars>>

\* lines 20-21: `if key in self._map: raise ValueError`
RegCheck(t) ==
    /\ reg.th[t].pc = "check"
    /\ reg' = IF reg.th[t].key \in DOMAIN reg.map
              THEN [reg EXCEPT !.lock = Release(@),
                               !.th[t] = Returned(t, Res("ValueError", ""))]
              ELSE [reg EXCEPT !.th[t].pc = "write"]
    /\ UNCHANGED <<jobVars, conv, apiVars>>

\* lines 22 and 28: `self._map[key] = builder`, and the block is left
RegWrite(t) ==
    /\ reg.th[t].pc = "write"
    /\ LET k == reg.th[t].key
           b == reg.th[t].builder
           isReg == reg.th[t].op = "register"
       IN  reg' = [reg EXCEPT
                     !.map = [x \in DOMAIN @ \cup {k} |-> IF x = k THEN b ELSE @[x]],
                     !.lock = Release(@),
                     !.th[t] = Returned(t, Res("ok", "")),
                     !.stored = @ \cup {<<k, b>>},
                     !.regOk[k] = IF isReg THEN @ + 1 ELSE @,
                     !.first[k] = IF isReg /\ @ = "" THEN b ELSE @,
                     !.setOn[k] = @ \/ ~isReg]
    /\ UNCHANGED <<jobVars, conv, apiVars>>

\* lines 33-36: `return self._map[key]`, or on KeyError the call of
\* self.list() for the message, inside the block
RegLookup(t) ==
    /\ reg.th[t].pc = "lookup"
    /\ reg' = IF reg.th[t].key \in DOMAIN reg.map
              THEN [reg EXCEPT !.lock = Release(@),
                               !.th[t] = Returned(t, Res("builder", reg.map[reg.th[t].key]))]
              ELSE [reg EXCEPT !.th[t].pc = "acquire", !.th[t].inner = TRUE]
    /\ UNCHANGED <<jobVars, conv, apiVars>>

\* lines 41-45: the keys are read under the lock and the listing is returned;
\* inside get, line 36 raises KeyError with the listing and leaves get's block
RegIterate(t) ==
    /\ reg.th[t].pc = "iterate"
    /\ reg' = IF reg.th[t].inner
              THEN [reg EXCEPT !.lock = Release(Release(@)),
                               !.th[t] = Returned(t, Res("KeyError", DOMAIN reg.map))]
              ELSE [reg EXCEPT !.lock = Release(@),
                               !.th[t] = Returned(t, Res("listing", DOMAIN reg.map))]
    /\ UNCHANGED <<jobVars, conv, apiVars>>

----------------------------------------------------------------------------
(* Specifications *)

Next ==
    \/ StartTask
    \/ \E m \in ModelErrMsgs, b \in BOOLEAN : ModelFails(m, b)
    \/ \E c \in Contents, calls \in CallSeqs(lim.calls - run.requested) : ModelResponds(c, calls)
    \/ ActUnknown
    \/ \E o \in ToolOutcomes : ActKnown(o)
    \/ \E out \in {"ok", "publish_fails", "commit_fails", "dispatch_fails"} : Persist(out)
    \/ \E ok \in BOOLEAN : Commit(ok)
    \/ Redeliver

Spec == Init /\ [][Next]_vars

\* one execution of the task up to the return of arun
NextLoop ==
    \/ StartTask
    \/ \E m \in ModelErrMsgs, b \in BOOLEAN : ModelFails(m, b)
    \/ \E c \in Contents, calls \in CallSeqs(lim.calls - run.requested) : ModelResponds(c, calls)
    \/ ActUnknown
    \/ \E o \in ToolOutcomes : ActKnown(o)

SpecLoop == InitLoop /\ [][NextLoop]_vars

\* one execution of the task for every submitted payload, up to the return of
\* arun
InitIds ==
    /\ lim = [rounds |-> JobRounds, calls |-> JobCalls, execs |-> 1]
    /\ job = NewJob
    /\ InitState
    /\ cfg \in {[c EXCEPT !.payload = p] :
                  c \in {x \in Configs : /\ x.webhook_url = None
                                         /\ x.resolve = "loop"
                                         /\ x.should_retry = "none"
                                         /\ ~x.system},
                  p \in Payloads}

SpecIds == InitIds /\ [][NextLoop]_vars

\* services/events.py line 16 and api/v1/events.py line 13: f"jobs:{job_id}"
ChannelName(tenant, job_id) == <<"jobs", job_id>>

\* GET /jobs/{job_id}/events by a client authenticated as tenant t, up to
\* pubsub.subscribe(channel): later messages of the channel reach the stream
stream_job_events(s, t, job_id) ==
    /\ subs[s] = NoSub
    /\ subs' = [subs EXCEPT ![s] = [tenant |-> t,
                                    channel |-> ChannelName(t, job_id),
                                    from |-> Len(channel),
                                    got |-> <<>>]]
    /\ UNCHANGED <<jobVars, conv, reg, rl>>

\* one turn of the generator's loop with a message waiting: the job's messages
\* are published on ChannelName(TenantId, JobId) by emit_event and the task
GetMessage(s) ==
    LET sub == subs[s]
        next == sub.from + Len(sub.got) + 1 IN
    /\ sub # NoSub
    /\ sub.channel = ChannelName(TenantId, JobId)
    /\ next <= Len(channel)
    /\ subs' = [subs EXCEPT ![s].got = Append(@, channel[next])]
    /\ UNCHANGED <<jobVars, conv, reg, rl>>

\* the client goes away: the generator's finally unsubscribes
Disconnect(s) ==
    /\ subs[s] # NoSub
    /\ subs' = [subs EXCEPT ![s] = NoSub]
    /\ UNCHANGED <<jobVars, conv, reg, rl>>

\* one execution of the task while clients open and read event streams
InitStream ==
    /\ lim = [rounds |-> JobRounds, calls |-> JobCalls, execs |-> 1]
    /\ job = NewJob
    /\ InitState
    /\ cfg = [webhook_url |-> None, resolve |-> "loop", should_retry |-> "none",
              system |-> FALSE, payload |-> NoPayload]

NextStream ==
    \/ StartTask
    \/ \E m \in ModelErrMsgs, b \in BOOLEAN : ModelFails(m, b)
    \/ \E c \in Contents, calls \in CallSeqs(lim.calls - run.requested) : ModelResponds(c, calls)
    \/ ActUnknown
    \/ \E o \in ToolOutcomes : ActKnown(o)
    \/ \E s \in Subscribers, t \in Tenants, j \in JobIds : stream_job_events(s, t, j)
    \/ \E s \in Subscribers : GetMessage(s)
    \/ \E s \in Subscribers : Disconnect(s)

SpecStream == InitStream /\ [][NextStream]_vars

\* settings.RATE_LIMIT_TENANT_PER_MIN and settings.RATE_LIMIT_USER_PER_MIN,
\* scaled down
TenantLimit == 2
UserLimit == 1
Limit(k) == IF k = "tenant" THEN TenantLimit ELSE UserLimit

\* check_rate_limit(tenant_id, user_id) is called: lines 19-21, up to the
\* INCR of the tenant's key
check_rate_limit(c, user) ==
    /\ rl.call[c].pc = "idle"
    /\ rl' = [rl EXCEPT !.call[c] = [NoCall EXCEPT !.pc = "incr",
                                                   !.user = user,
                                                   !.key = "tenant"]]
    /\ UNCHANGED <<jobVars, conv, reg, subs>>

\* _allow line 13: INCR creates a missing key with value 1 and no expiry
Incr(c) ==
    LET call == rl.call[c]
        k == call.key
        current == rl.count[k] + 1 IN
    /\ call.pc = "incr"
    /\ rl' = [rl EXCEPT !.count[k] = current,
                        !.creator[k] = IF current = 1 THEN c ELSE @,
                        !.admitted[k] = IF current <= Limit(k) THEN @ + 1 ELSE @,
                        !.call[c].current = current,
                        !.call[c].bumped = @ \cup {k},
                        !.call[c].pc = IF current = 1 THEN "expire" ELSE "return"]
    /\ UNCHANGED <<jobVars, conv, reg, subs>>

\* _allow lines 14-15: EXPIRE sets the key's expiry, or the await raises (the
\* connection to Redis fails, the request is cancelled) and the call ends
Expire(c, ok) ==
    LET call == rl.call[c]
        k == call.key IN
    /\ call.pc = "expire"
    /\ rl' = IF ok
             THEN [rl EXCEPT !.ttl[k] = rl.count[k] > 0,
                             !.call[c].pc = "return"]
             ELSE [rl EXCEPT !.call[c].pc = "done",
                             !.call[c].outcome = "error"]
    /\ UNCHANGED <<jobVars, conv, reg, subs>>

\* _allow line 16 and check_rate_limit lines 21-28
AllowReturns(c) ==
    LET call == rl.call[c]
        k == call.key
        ok == call.current <= Limit(k) IN
    /\ call.pc = "return"
    /\ rl' = IF ~ok
             THEN [rl EXCEPT !.call[c].pc = "done", !.call[c].outcome = "429"]
             ELSE IF k = "tenant" /\ call.user
             THEN [rl EXCEPT !.call[c].pc = "incr", !.call[c].key = "user"]
             ELSE [rl EXCEPT !.call[c].pc = "done", !.call[c].outcome = "ok"]
    /\ UNCHANGED <<jobVars, conv, reg, subs>>

\* Redis deletes a key whose expiry has passed: the window of the key ends
KeyExpires(k) ==
    /\ rl.count[k] > 0
    /\ rl.ttl[k]
    /\ rl' = [rl EXCEPT !.count[k] = 0,
                        !.ttl[k] = FALSE,
                        !.admitted[k] = 0,
                        !.creator[k] = 0]
    /\ UNCHANGED <<jobVars, conv, reg, subs>>

\* concurrent calls of check_rate_limit, and nothing else
InitLimit ==
    /\ lim = [rounds |-> 0, calls |-> 0, execs |-> 0]
    /\ job = NewJob
    /\ InitState
    /\ cfg = [webhook_url |-> None, resolve |-> "loop", should_retry |-> "none",
              system |-> FALSE, payload |-> NoPayload]

NextLimit ==
    \/ \E c \in LimitCalls, user \in BOOLEAN : check_rate_limit(c, user)
    \/ \E c \in LimitCalls : Incr(c)
    \/ \E c \in LimitCalls, ok \in BOOLEAN : Expire(c, ok)
    \/ \E c \in LimitCalls : AllowReturns(c)
    \/ \E k \in LimitKeys : KeyExpires(k)

SpecLimit == InitLimit /\ [][NextLimit]_vars

\* one execution of an arun whose model requests calls of the known tool with
\* argument payloads of every shape
InitArgs ==
    /\ lim = [rounds |-> ArgRounds, calls |-> MaxArgCalls, execs |-> 1]
    /\ job = NewJob
    /\ InitRest
    /\ cfg.webhook_url = None
    /\ cfg.resolve = "loop"
    /\ cfg.should_retry = "none"
    /\ ~cfg.system

NextArgs ==
    \/ StartTask
    \/ \E c \in Contents, calls \in ArgCallSeqs(lim.calls) : ModelResponds(c, calls)
    \/ \E o \in ToolOutcomes : ActKnown(o)

SpecArgs == InitArgs /\ [][NextArgs]_vars

\* the same, where the event loop keeps running the coroutine and every model
\* invocation and tool call ends; the bounds on rounds and failures stand for
\* a model that eventually answers and eventually asks for no more tools
InitFair == InitLoop /\ ~cfg.system

FairLoop == InitFair /\ [][NextLoop]_vars /\ WF_vars(NextLoop)

\* the task executed again and again (autoretry, redelivery), each time with a
\* model that requests no tools
InitRetry ==
    /\ lim = [rounds |-> 0, calls |-> 0, execs |-> MaxExecs]
    /\ job \in {NewJob, AbsentJob}
    /\ InitRest

NextRetry ==
    \/ StartTask
    \/ \E m \in ModelErrMsgs, b \in BOOLEAN : ModelFails(m, b)
    \/ \E c \in Contents : ModelResponds(c, <<>>)
    \/ \E out \in {"ok", "publish_fails", "commit_fails", "dispatch_fails"} : Persist(out)
    \/ \E ok \in BOOLEAN : Commit(ok)
    \/ Redeliver

SpecRetry == InitRetry /\ [][NextRetry]_vars

\* one execution of the task, from the queue to the committed job row
InitJob ==
    /\ lim = [rounds |-> JobRounds, calls |-> JobCalls, execs |-> 1]
    /\ job \in {NewJob, AbsentJob}
    /\ InitRest

NextJob ==
    \/ StartTask
    \/ \E m \in ModelErrMsgs, b \in BOOLEAN : ModelFails(m, b)
    \/ \E c \in Contents, calls \in CallSeqs(lim.calls - run.requested) : ModelResponds(c, calls)
    \/ ActUnknown
    \/ \E o \in ToolOutcomes : ActKnown(o)
    \/ \E out \in {"ok", "publish_fails", "commit_fails", "dispatch_fails"} : Persist(out)
    \/ \E ok \in BOOLEAN : Commit(ok)

SpecJob == InitJob /\ [][NextJob]_vars

\* one job with a webhook URL whose model requests no tools, executed once,
\* and the delivery of its webhook by the retry chain of one task message
InitDeliver ==
    /\ lim = [rounds |-> 0, calls |-> 0, execs |-> 1]
    /\ job = NewJob
    /\ InitRest
    /\ cfg.webhook_url # None
    /\ cfg.resolve \in {"loop", "keyerror"}
    /\ cfg.should_retry = "none"
    /\ ~cfg.system

NextDeliver ==
    \/ StartTask
    \/ \E m \in ModelErrMsgs, b \in BOOLEAN : ModelFails(m, b)
    \/ \E c \in Contents : ModelResponds(c, <<>>)
    \/ \E out \in {"ok", "publish_fails", "commit_fails", "dispatch_fails"} : Persist(out)
    \/ \E ok \in BOOLEAN : Commit(ok)
    \/ \E t \in tasks, resp \in Responses, db \in CommitOutcomes : DeliverWebhook(t, resp, db)

SpecDeliver == InitDeliver /\ [][NextDeliver]_vars

\* one job with a webhook URL whose agent is not registered, and the delivery
\* of its webhook when the queue delivers task messages more than once
InitDuplicate ==
    /\ lim = [rounds |-> 0, calls |-> 0, execs |-> 1]
    /\ job = NewJob
    /\ InitRest
    /\ cfg.webhook_url # None
    /\ cfg.resolve = "keyerror"

NextDuplicate ==
    \/ StartTask
    \/ \E out \in {"ok", "publish_fails", "commit_fails", "dispatch_fails"} : Persist(out)
    \/ \E ok \in BOOLEAN : Commit(ok)
    \/ \E t \in tasks, resp \in Responses, db \in CommitOutcomes : DeliverWebhook(t, resp, db)
    \/ \E t \in tasks : DuplicateTask(t)

SpecDuplicate == InitDuplicate /\ [][NextDuplicate]_vars

\* arun executions that share a worker process, and nothing else
InitShared ==
    /\ lim = [rounds |-> 0, calls |-> 0, execs |-> 0]
    /\ job = NewJob
    /\ InitRest
    /\ cfg.webhook_url = None
    /\ cfg.resolve = "loop"
    /\ cfg.should_retry = "none"
    /\ ~cfg.system

NextShared ==
    \/ \E e \in Activations, r \in Runners : ArunStart(e, r)
    \/ \E e \in Activations, n \in 0..2 : ArunModel(e, n)
    \/ \E e \in Activations : ArunModelFails(e)
    \/ \E e \in Activations : ArunTool(e)

SpecShared == InitShared /\ [][NextShared]_vars

\* threads that call the methods of REGISTRY, and nothing else
NextRegistry ==
    \/ \E t \in Threads, raw \in RawPairs, b \in Builders : RegCall(t, "register", raw, b)
    \/ \E t \in Threads, raw \in RawPairs, b \in Builders : RegCall(t, "set", raw, b)
    \/ \E t \in Threads, raw \in RawPairs : RegCall(t, "get", raw, "")
    \/ \E t \in Threads : RegCall(t, "list", <<>>, "")
    \/ \E t \in Threads : Acquire(t)
    \/ \E t \in Threads : RegCheck(t)
    \/ \E t \in Threads : RegWrite(t)
    \/ \E t \in Threads : RegLookup(t)
    \/ \E t \in Threads : RegIterate(t)

SpecRegistry == InitShared /\ [][NextRegistry]_vars

----------------------------------------------------------------------------
(* Properties *)

Terminal(st) == st \in {"succeeded", "failed"}

\* the events stored by the current arun
RunEvents == SubSeq(events, run.start + 1, Len(events))

\* the call the loop is about to process
CurrentName == CallName(ai.tool_calls[tci])

\* C1: when the resolution, the construction or the runner raised and the job
\* row exists, a finished execution has persisted the job as failed with an
\* error text, has published the failed notice and, with a webhook URL, has
\* created a job.failed delivery; the job is not persisted as succeeded.
C1_FailurePersisted ==
    (pc = "done" /\ run.exc # NoExc /\ job.status # "absent") =>
        /\ job.status = "failed"
        /\ job.error # None
        /\ run.notice = "failed"
        /\ Truthy(cfg.webhook_url) =>
              /\ run.delivery # 0
              /\ deliveries[run.delivery].event_type = "job.failed"

\* C1, where the code does what the claim says: the exception has a message
C1_Witness ==
    /\ pc = "done"
    /\ run.exc # NoExc
    /\ run.exc.msg # ""
    /\ job.status = "failed"
    /\ run.delivery # 0

\* C2: the persisted status only moves queued -> {succeeded, failed}; a
\* terminal row never changes again, whatever executions follow; output is
\* present iff succeeded and error iff failed.
C2_TerminalIsFinal ==
    [][/\ Terminal(job.status) => job' = job
       /\ job'.status # job.status => job.status = "queued" /\ Terminal(job'.status)
       /\ job'.output_json.present <=> job'.status = "succeeded"
       /\ job'.error # None <=> job'.status = "failed"]_vars

\* C3: there is no state in which a WebhookDelivery row of the job is
\* persisted while the job's terminal status is not, nor, with a webhook URL,
\* a terminal job without its delivery row.
C3_OneTransaction ==
    /\ Len(deliveries) > 0 => Terminal(job.status)
    /\ (Truthy(cfg.webhook_url) /\ Terminal(job.status)) => Len(deliveries) > 0

\* C4: when the last round that requested tools requested N > 0 calls, arun
\* returns the result of the N-th call of that round.
C4_LastCallResult ==
    (run.returned /\ Len(run.lastRound) > 0) =>
        run.final = run.lastRound[Len(run.lastRound)]

\* C4, where the code does what the claim says: two calls, the last one fails
C4_Witness ==
    /\ run.returned
    /\ Len(run.lastRound) = 2
    /\ run.lastRound[1] = Doc("v1")
    /\ run.final = ErrDoc("tool failed")

\* C5: when the model never requests a tool, arun returns the text of the
\* final response, or "" when the response has no content.
C5_TextResult ==
    (run.returned /\ run.requested = 0) =>
        run.final = (IF run.text = None THEN Str("") ELSE run.text)

C5_Witness ==
    /\ run.returned
    /\ run.requested = 0
    /\ run.text = Str("answer")
    /\ run.final = Str("answer")

C5_WitnessAbsent ==
    /\ run.returned
    /\ run.requested = 0
    /\ run.text = None

\* C6: every tool-result message of the transcript comes after the assistant
\* message of its round, with only tool results of that round in between.
C6_AssistantFirst ==
    \A i \in 1..Len(msgs) :
        msgs[i].type = "tool" =>
            \E j \in 1..(i - 1) :
                /\ msgs[j].type = "ai"
                /\ msgs[j].round = msgs[i].round
                /\ \A k \in (j + 1)..(i - 1) :
                      msgs[k].type = "tool" /\ msgs[k].round = msgs[i].round

\* two rounds with tool results; the second has two
C6_Witness ==
    /\ Len(msgs) >= 6
    /\ msgs[Len(msgs)].type = "tool"
    /\ msgs[Len(msgs) - 1].type = "tool"
    /\ msgs[Len(msgs)].round = 2

\* C7: a call whose name is not in tool_map (a missing name included) appends
\* one tool-result message with an error field and stores one act/progress
\* event; the loop goes on to the next call of the round, or to the next model
\* invocation after the last; nothing is raised for it (only a failing
\* emit_event ends the run in this step).
C7_UnknownToolContained ==
    [][(pc = "act" /\ ~Known(CurrentName)) =>
          IF run'.exc # NoExc
          THEN run'.exc.origin = "emit_event"
          ELSE /\ Len(msgs') = Len(msgs) + 1
               /\ SubSeq(msgs', 1, Len(msgs)) = msgs
               /\ msgs'[Len(msgs')].type = "tool"
               /\ msgs'[Len(msgs')].content.tag = "errdoc"
               /\ msgs'[Len(msgs')].name = (IF CurrentName = None THEN "tool"
                                            ELSE CurrentName.val)
               /\ events' = Append(events, Event("act", "progress"))
               /\ run'.invoked = run.invoked
               /\ ~run'.returned
               /\ IF tci < Len(ai.tool_calls)
                  THEN pc' = "act" /\ tci' = tci + 1
                  ELSE pc' = "plan"]_vars

\* an unknown call with no name was answered and the round goes on
C7_Witness ==
    /\ pc = "act"
    /\ tci = 2
    /\ msgs[Len(msgs)].type = "tool"
    /\ msgs[Len(msgs)].content = ErrDoc("Unknown tool 'None'")
    /\ msgs[Len(msgs)].name = "tool"

\* C8: for a call of a known tool, whatever the tool does, no exception caused
\* by the tool leaves arun: one tool-result message is appended (with the error
\* text when the tool failed), the loop goes on to the next call or the next
\* model invocation, and the tool was invoked once.
C8_ToolErrorsContained ==
    [][(pc = "act" /\ Known(CurrentName)) =>
          /\ run'.invoked = run.invoked + 1
          /\ IF run'.exc # NoExc
             THEN run'.exc.origin = "emit_event"
             ELSE /\ Len(msgs') = Len(msgs) + 1
                  /\ msgs'[Len(msgs')].type = "tool"
                  /\ pc' \in {"act", "plan"}]_vars

\* C8, where the code does what the claim says: the tool raised
C8_Witness ==
    /\ pc \in {"act", "plan"}
    /\ Len(msgs) > 0
    /\ msgs[Len(msgs)].type = "tool"
    /\ msgs[Len(msgs)].content = ErrDoc("tool failed")

\* C9: after a failed model invocation the loop invokes the model again iff a
\* predicate was supplied and returned true; otherwise that model error leaves
\* arun and the job is persisted as failed with its text.
C9_ModelErrorSurfaces ==
    /\ (run.modelExc # NoExc /\ run.pred = "true") =>
            run.exc.origin \notin {"ainvoke", "should_retry"}
    /\ (run.modelExc # NoExc /\ run.pred # "true") =>
            /\ pc \notin {"plan", "act"}
            /\ run.exc = run.modelExc
            /\ (pc = "done" /\ job.status # "absent") =>
                  (job.status = "failed" /\ job.error = Str(run.modelExc.msg))

\* C9, where the code does what the claim says: a predicate answered false
C9_Witness ==
    /\ pc = "done"
    /\ run.pred = "false"
    /\ run.exc = run.modelExc
    /\ job.status = "failed"
    /\ job.error = Str("llm down")

\* C10: when arun returns, the events it stored begin with (plan, started),
\* end with (act, finished), and every (act, progress) has an (act, started)
\* before it.
C10_EventOrder ==
    run.returned =>
        LET es == RunEvents
        IN  /\ Len(es) >= 2
            /\ es[1] = Event("plan", "started")
            /\ es[Len(es)] = Event("act", "finished")
            /\ \A i \in 1..Len(es) :
                  es[i] = Event("act", "progress") =>
                      \E j \in 1..(i - 1) : es[j] = Event("act", "started")

\* a run with tool rounds returned
C10_Witness ==
    /\ run.returned
    /\ run.requested >= 3
    /\ \E i \in 1..Len(RunEvents) : RunEvents[i] = Event("act", "progress")

\* C11: for a job whose model never requests a tool, a finished execution has
\* persisted the job as succeeded with output equal to the model's text, and
\* the events of the run are exactly (plan, started), (plan, finished): no
\* event with step act.
C11_NoToolRun ==
    (pc = "done" /\ run.returned /\ run.requested = 0 /\ job.status # "absent") =>
        /\ job.status = "succeeded"
        /\ job.output_json = [present |-> TRUE, result |-> PyOr(run.text, Str(""))]
        /\ RunEvents = <<Event("plan", "started"), Event("plan", "finished")>>

\* C11, where the code does what the claim says: succeeded with the text
C11_Witness ==
    /\ pc = "done"
    /\ run.returned
    /\ run.requested = 0
    /\ job.status = "succeeded"
    /\ job.output_json.result = Str("answer")

\* C12: when the model requests exactly one call of a known tool in its first
\* round and none in its second, and the tool returns, the events of the run
\* are exactly plan/started, plan/finished, act/started, act/progress,
\* act/finished, and arun returns the value the tool returned.
C12_OneToolRun ==
    (/\ run.returned
     /\ run.requested = 1
     /\ run.invoked = 1
     /\ run.lastRound[1].tag # "errdoc") =>
        /\ RunEvents = <<Event("plan", "started"), Event("plan", "finished"),
                         Event("act", "started"), Event("act", "progress"),
                         Event("act", "finished")>>
        /\ run.final = run.lastRound[1]

\* C12, where the code does what the claim says: the returned value
C12_Witness ==
    /\ run.returned
    /\ run.requested = 1
    /\ run.invoked = 1
    /\ run.lastRound = <<Doc("v1")>>
    /\ run.final = Doc("v1")

\* C13: once a WebhookDelivery row is persisted as sent, no later execution of
\* deliver_webhook for it (a scheduled retry or a message the queue delivers
\* again) makes another POST or changes the row.
C13_SentIsTerminal ==
    [][\A i \in DOMAIN deliveries :
          deliveries[i].status = "sent" =>
              /\ deliveries'[i] = deliveries[i]
              /\ http'.posts = http.posts]_vars

\* C13, where the code does what the claim says: sent, and no message is left
C13_Witness ==
    /\ Len(deliveries) = 1
    /\ deliveries[1].status = "sent"
    /\ deliveries[1].attempts = 3
    /\ tasks = {}

\* C14: when the first N POSTs of a delivery failed (N within the retry
\* budget), the commits succeeded and POST N+1 is answered with 2xx, the row
\* is persisted with attempts = N+1, status sent and no last error.
C14_SentAfterFailures ==
    [][(/\ ~http.ok
        /\ http'.ok
        /\ http'.dbfails = 0
        /\ http.posts <= deliver_max_retries) =>
          deliveries'[1] = [deliveries[1] EXCEPT !.status = "sent",
                                                 !.attempts = http.posts + 1,
                                                 !.last_error = None]]_vars

\* two failures, then a success
C14_Witness ==
    /\ http.posts = 3
    /\ http.ok
    /\ http.dbfails = 0
    /\ deliveries[1].status = "sent"
    /\ deliveries[1].attempts = 3
    /\ deliveries[1].last_error = None

\* the error texts a failed POST can leave in last_error
FailureTexts == {HttpErr(resp) : resp \in {x \in Responses : ~Success(x)}}

\* C15: every failed delivery attempt whose commit succeeds persists the row
\* with status retrying, attempts one higher and last error set to the error
\* text; within the retry budget the task is re-scheduled with the delay
\* min(600, 10 * 2^k), k being the retries already made; the delays of a retry
\* chain never decrease and never exceed 600.
C15_RetryBackoff ==
    [][\A t \in tasks :
          (/\ t \notin tasks'
           /\ http'.posts = http.posts + 1
           /\ http'.failed
           /\ http'.commit = "ok") =>
              LET d == deliveries[t.id]
                  ds == http'.delays[t.chain]
              IN  /\ deliveries'[t.id].status = "retrying"
                  /\ deliveries'[t.id].attempts = d.attempts + 1
                  /\ deliveries'[t.id].last_error \in FailureTexts
                  /\ t.retries < deliver_max_retries =>
                        /\ Task(t.id, t.retries + 1, t.chain) \in tasks'
                        /\ Len(ds) = Len(http.delays[t.chain]) + 1
                        /\ ds[Len(ds)] = (IF 10 * (2 ^ t.retries) < 600
                                          THEN 10 * (2 ^ t.retries) ELSE 600)
                  /\ \A i \in 1..Len(ds) :
                        /\ ds[i] <= 600
                        /\ i > 1 => ds[i - 1] <= ds[i]]_vars

\* six failed attempts were re-scheduled
C15_Witness ==
    /\ Len(deliveries) = 1
    /\ deliveries[1].status = "retrying"
    /\ deliveries[1].attempts = 6
    /\ http.delays[0] = <<10, 20, 40, 80, 160, 320>>

\* C16: the retry chain of a delivery executes the task at most 7 times; when
\* all 7 attempts failed (and were committed) the row is retrying with
\* attempts = 7 and no task message is left; no row ever has status failed.
C16_BudgetExhausted ==
    /\ \A c \in Chains : http.tries[c] <= 7
    /\ \A i \in DOMAIN deliveries : deliveries[i].status \in {"pending", "sent", "retrying"}
    /\ (http.tries[0] = 7 /\ ~http.ok /\ http.dbfails = 0) =>
          /\ deliveries[1].status = "retrying"
          /\ deliveries[1].attempts = 7
          /\ tasks = {}

\* seven failed attempts
C16_Witness ==
    /\ http.tries[0] = 7
    /\ ~http.ok
    /\ http.dbfails = 0
    /\ deliveries[1].attempts = 7
    /\ tasks = {}

\* C17: enqueue_delivery commits the row, with status pending and attempts 0,
\* before it dispatches the task: no task message exists for an id without a
\* persisted row, a row no attempt has touched is pending with attempts 0, and
\* every persisted row has had its delivery task dispatched.
C17_RowThenDispatch ==
    /\ \A t \in tasks : t.id \in DOMAIN deliveries
    /\ \A i \in dispatched : i \in DOMAIN deliveries
    /\ \A i \in DOMAIN deliveries :
          /\ http.posts = 0 =>
                /\ deliveries[i].status = "pending"
                /\ deliveries[i].attempts = 0
          /\ i \in dispatched

\* C17, where the code does what the claim says: the row, then its task
C17_Witness ==
    /\ Len(deliveries) = 1
    /\ deliveries[1].status = "pending"
    /\ deliveries[1].attempts = 0
    /\ tasks = {Task(1, 0, 0)}
    /\ dispatched = {1}

\* the step messages among the messages of the channel
StepCount(ch) == Cardinality({i \in 1..Len(ch) : ch[i].event = "step"})

\* C18: every step message on the channel carries the id of an Event row that
\* is persisted, with the same step and status; and when the store write of an
\* emit_event fails, the error reaches the caller (arun is left with it and it
\* becomes the job's error) and that call publishes no message.
C18_StoreBeforePublish ==
    [][/\ \A i \in 1..Len(channel') :
             channel'[i].event = "step" =>
                 /\ channel'[i].id \in 1..Len(events')
                 /\ events'[channel'[i].id] = Event(channel'[i].step, channel'[i].status)
       /\ (run.exc = NoExc /\ run'.exc = Exc("DBAPIError", "emit_event", "db down")) =>
             /\ StepCount(channel') - StepCount(channel) = Len(events') - Len(events)
             /\ pc' = "persist"
             /\ error' = Str("db down")]_vars

\* a store write failed after earlier events of the run were stored and published
C18_Witness ==
    /\ run.exc = Exc("DBAPIError", "emit_event", "db down")
    /\ Len(events) >= 3
    /\ StepCount(channel) = Len(events)
    /\ error = Str("db down")

\* C19: when the publish of an emit_event fails after its row was stored (the
\* store then holds more events than the channel has step messages), the call
\* does not fail its caller: arun is not left with an exception and the job
\* gets no error from it.
C19_PublishNonFatal ==
    StepCount(channel) < Len(events) => (run.exc = NoExc /\ error = None)

\* C20: in every session a component opens, the first statement issued is the
\* set_config that binds the tenant identifier.
C20_TenantBoundFirst ==
    \A c \in Components : sql[c] # <<>> => sql[c][1] = "set_config"

\* C20, where the code does what the claim says: the sessions of emit_event,
\* enqueue_delivery and run_agent_job
C20_Witness ==
    /\ sql["emit_event"] = <<"set_config", "insert", "commit">>
    /\ sql["enqueue_delivery"] = <<"set_config", "insert", "commit">>
    /\ sql["run_agent_job"] = <<"set_config", "select", "commit">>

\* C21: when the runner returned a result and the job row exists, a finished
\* execution has persisted the job as succeeded with output {result: <the
\* returned value>}, has published the succeeded notice, and has created a
\* WebhookDelivery, of type job.succeeded, iff a webhook URL was supplied; no
\* job.failed delivery exists.
C21_SuccessPersisted ==
    (pc = "done" /\ run.returned /\ job.status # "absent") =>
        /\ job = [status |-> "succeeded",
                  output_json |-> [present |-> TRUE, result |-> run.final],
                  error |-> None]
        /\ run.notice = "succeeded"
        /\ channel[Len(channel)] = Notice("succeeded", None)
        /\ cfg.webhook_url # None <=> Len(deliveries) = 1
        /\ run.delivery = Len(deliveries)
        /\ \A i \in DOMAIN deliveries :
              /\ deliveries[i].event_type = "job.succeeded"
              /\ deliveries[i].payload_json = run.final

\* a tool result was persisted and announced
C21_Witness ==
    /\ pc = "done"
    /\ run.returned
    /\ job.output_json.result = Doc("v1")
    /\ Len(deliveries) = 1
    /\ deliveries[1].event_type = "job.succeeded"

\* C22: when no job row with the id exists at completion time, the step of
\* lines 53-80 changes no job state, publishes no notice, creates no
\* WebhookDelivery and no delivery task, and the task completes without
\* raising, so it is not retried.
C22_MissingRowNoOp ==
    [][(pc = "persist" /\ job.status = "absent") =>
          /\ job' = job
          /\ sess' = sess
          /\ channel' = channel
          /\ deliveries' = deliveries
          /\ dispatched' = dispatched
          /\ tasks' = tasks
          /\ run'.raised = NoExc
          /\ retries' = retries
          /\ pc' = "done"]_vars

\* a run with a webhook URL returned and found no row
C22_Witness ==
    /\ pc = "done"
    /\ job.status = "absent"
    /\ run.returned
    /\ cfg.webhook_url # None
    /\ deliveries = <<>>
    /\ \A i \in 1..Len(channel) : channel[i].event \in {"started", "step"}

\* C23: a store failure at any write of the unit of work, the Event writes of
\* the loop included, leaves run_agent_job uncaught (the queue re-runs the
\* task): it is not caught by the handler of line 49 and the job is not
\* persisted as failed with it.
C23_StoreFailureFatal ==
    (run.exc.type = "DBAPIError" \/ run.raised.type = "DBAPIError") =>
        /\ run.exc.type # "DBAPIError"
        /\ run.raised.type = "DBAPIError"
        /\ job.error # Str("db down")

\* C23, where the code does what the claim says: the commit of line 80 fails
C23_Witness ==
    /\ run.raised = Exc("DBAPIError", "commit", "db down")
    /\ pc = "queued"
    /\ retries = 1
    /\ job.status = "queued"

\* C24: when REGISTRY.get or the builder raises, the loop is not executed (no
\* event, no transcript, no model or tool call), run_agent_job does not raise
\* for it and goes on to record the job as failed with the text "Unknown agent
\* <pack>/<agent>: <e>".
C24_ResolutionFails ==
    [][/\ (run.exc = NoExc /\ run'.exc.origin \in {"keyerror", "builderror"}) =>
             /\ pc' = "persist"
             /\ retries' = retries
             /\ run'.raised = NoExc
             /\ error' = Str("Unknown agent seo_factory/keyword_researcher: "
                             \o run'.exc.msg)
       /\ run'.exc.origin \in {"keyerror", "builderror"} =>
             /\ events' = <<>>
             /\ msgs' = <<>>
             /\ run'.invoked = 0
             /\ run'.raised.origin \notin {"keyerror", "builderror"}
             /\ (pc' = "done" /\ job'.status # "absent") =>
                   /\ job'.status = "failed"
                   /\ job'.error = Str("Unknown agent seo_factory/keyword_researcher: "
                                       \o run'.exc.msg)]_vars

\* the builder raised an exception with an empty text
C24_Witness ==
    /\ pc = "done"
    /\ run.exc = Exc("Exception", "builderror", "")
    /\ job.status = "failed"
    /\ job.error = Str("Unknown agent seo_factory/keyword_researcher: ")

\* C25: a delivery attempt whose commit succeeds takes the success path (row
\* sent, not retried) iff the response status s satisfies 200 <= s <= 299;
\* with any other status, or no response, the row is retrying and, within the
\* retry budget, the task is sent again.
C25_StatusDecides ==
    [][\A t \in tasks :
          (/\ t \notin tasks'
           /\ http'.posts = http.posts + 1
           /\ http'.commit = "ok") =>
              IF 200 <= http'.status /\ http'.status <= 299
              THEN /\ deliveries'[t.id].status = "sent"
                   /\ tasks' = tasks \ {t}
              ELSE /\ deliveries'[t.id].status = "retrying"
                   /\ t.retries < deliver_max_retries =>
                         tasks' = (tasks \ {t}) \cup {Task(t.id, t.retries + 1, t.chain)}]_vars

\* a 300, then a 299
C25_Witness ==
    /\ http.posts = 2
    /\ http.status = 299
    /\ deliveries[1].status = "sent"
    /\ deliveries[1].attempts = 2

\* C26: the signature of every POST is "sha256=" and the HMAC, under the
\* deployment's secret, of the very bytes sent as the body of that POST; and
\* signing the stored payload again for a later attempt gives the same value.
C26_SignatureOverBody ==
    [][http'.posts > 0 =>
          /\ http'.wire.sig = <<"sha256=", <<"change-me", http'.wire.body>>>>
          /\ http.posts > 0 => http'.wire.sig = http.wire.sig]_vars

\* C26, where the code does what the claim says: httpx sends the compact form
C26_Witness ==
    /\ http.posts = 2
    /\ http.wire.body = "{\"job_id\":\"job-1\",\"result\":\"answer\"}"
    /\ http.wire.sig = <<"sha256=", <<"change-me", http.wire.body>>>>

\* C27: in every state, the transcript of every execution of arun that has
\* started holds only messages that execution created, begins with the system
\* message exactly when its Runner has a system prompt, continues with the
\* execution's own user message, and holds no other system or user message;
\* this for executions on the same Runner and on different ones, one after
\* the other or interleaved.
C27_PrivateTranscript ==
    \A e \in Activations :
        conv.frames[e].pc # "idle" =>
            LET t == Transcript(e)
                f == conv.frames[e]
                h == IF RunnerSystem(f.runner) THEN 2 ELSE 1
            IN  /\ \A i \in 1..Len(t) : t[i].by = e
                /\ Len(t) >= h
                /\ t[h] = TaggedMsg("human", e, f.input)
                /\ h = 2 => t[1] = TaggedMsg("system", e, "system")
                /\ \A i \in (h + 1)..Len(t) : t[i].type \in {"ai", "tool"}

\* C27: two executions interleaved on the same Runner, each with a model
\* response and a tool result in its transcript, one finished and one not
C27_Witness ==
    /\ conv.frames["e1"].runner = "r1"
    /\ conv.frames["e2"].runner = "r1"
    /\ conv.frames["e1"].pc = "done"
    /\ conv.frames["e2"].pc = "act"
    /\ conv.frames["e1"].input # conv.frames["e2"].input
    /\ Len(Transcript("e1")) = 6
    /\ Len(Transcript("e2")) = 4

\* the model asks for one more round of tools and the loop takes it up
C28_ToolRound ==
    /\ \E calls \in CallSeqs(1) \ {<<>>} : ModelResponds(Str(""), calls)
    /\ pc' = "act"

\* the model invocation fails, the predicate says retry, the loop invokes again
C28_RetryStep ==
    /\ ModelFails("llm down", TRUE)
    /\ pc' = "plan"
    /\ attempt' = attempt + 1

C29_TerminalAndOneDelivery ==
    [][/\ (pc = "persist" /\ pc' = "commit" /\ Found(job)) =>
              IF Truthy(cfg.webhook_url)
              THEN /\ Len(deliveries') = Len(deliveries) + 1
                   /\ SubSeq(deliveries', 1, Len(deliveries)) = deliveries
                   /\ run'.delivery = Len(deliveries')
                   /\ deliveries'[run'.delivery].status = "pending"
                   /\ deliveries'[run'.delivery].event_type = "job." \o run'.notice
              ELSE deliveries' = deliveries /\ run'.delivery = 0
       /\ (pc = "commit" /\ pc' = "done") =>
              /\ Terminal(job'.status)
              /\ job'.status = run.notice
              /\ (job'.status = "succeeded") = job'.output_json.present
              /\ (job'.status = "failed") = (job'.error # None)
              /\ deliveries' = deliveries]_vars

\* C29: an execution that ran a tool, returned, and committed the job as
\* succeeded with its one delivery row
C29_Witness ==
    /\ pc = "done"
    /\ run.returned
    /\ run.invoked = 1
    /\ run.raised = NoExc
    /\ job.status = "succeeded"
    /\ Len(deliveries) = 1
    /\ run.delivery = 1
    /\ deliveries[1].event_type = "job.succeeded"

\* the threads inside a `with self._lock:` block
C30_Inside == {t \in Threads : reg.th[t].pc \in {"check", "write", "lookup", "iterate"}}

\* C30: in every interleaving of register, set, get and list from several
\* threads, the table is a mapping from trimmed keys to builders that were
\* stored under them, and at most one thread is inside a locked block; of the
\* register calls for a key at most one returns normally, none when the key
\* was there from the start, and a ValueError means the key is taken; as long
\* as no set writes the key, the builder of the register call that returned
\* stays; get returns only a builder stored for the trimmed key of its
\* arguments, and its KeyError means the key is not in the listing taken
\* under the same lock.
C30_RegistrySafe ==
    /\ DOMAIN reg.map \subseteq Keys
    /\ \A k \in DOMAIN reg.map : <<k, reg.map[k]>> \in reg.stored
    /\ Cardinality(C30_Inside) <= 1
    /\ C30_Inside \subseteq {reg.lock.owner}
    /\ \A k \in Keys :
          /\ reg.regOk[k] <= 1
          /\ k \in DOMAIN BuiltIn => reg.regOk[k] = 0
          /\ (reg.regOk[k] = 1 /\ ~reg.setOn[k]) => reg.map[k] = reg.first[k]
    /\ \A t \in Threads :
          LET f == reg.th[t]
          IN  /\ (f.op \in {"register", "set", "get"} /\ f.pc # "idle") =>
                    f.key = <<Strip(f.raw[1]), Strip(f.raw[2])>>
              /\ (f.op = "register" /\ f.res.kind = "ValueError") =>
                    /\ f.key \in DOMAIN reg.map
                    /\ f.key \in DOMAIN BuiltIn \/ reg.setOn[f.key] \/ reg.regOk[f.key] = 1
              /\ (f.op = "register" /\ f.res.kind = "ok") =>
                    /\ reg.regOk[f.key] = 1
                    /\ \A u \in Threads \ {t} :
                          (reg.th[u].op = "register" /\ reg.th[u].key = f.key)
                              => reg.th[u].res.kind # "ok"
              /\ (f.op = "get" /\ f.res.kind = "builder") =>
                    <<f.key, f.res.val>> \in reg.stored
              /\ (f.op = "get" /\ f.res.kind = "KeyError") => f.key \notin f.res.val
              /\ (f.op = "get" /\ f.pc = "idle") => f.res.kind \in {"builder", "KeyError"}

\* C30: two register calls for the same key under two spellings and with two
\* builders, the second begun while the first was running: the first returned
\* and its builder is in the table, the second raised ValueError
C30_Witness ==
    /\ reg.calls = 2
    /\ reg.th["t1"].op = "register" /\ reg.th["t1"].res.kind = "ok"
    /\ reg.th["t2"].op = "register" /\ reg.th["t2"].res.kind = "ValueError"
    /\ reg.th["t1"].raw # reg.th["t2"].raw
    /\ reg.th["t1"].key = reg.th["t2"].key
    /\ reg.th["t1"].builder = "b1" /\ reg.th["t2"].builder = "b2"
    /\ reg.th["t2"].overlap
    /\ reg.map[reg.th["t1"].key] = "b1"

\* the call the loop is about to process
CurrentCall == ai.tool_calls[tci]

\* the argument payload of the call is a string that json.loads rejects
C31_Malformed ==
    RawArgs(CurrentCall).tag = "str" /\ ~JsonLoads(RawArgs(CurrentCall).val).ok

\* C31: a call of a known tool whose argument payload is a string that does
\* not parse as JSON is processed with empty arguments: the tool is invoked
\* once, with no arguments, and nothing is raised for the payload; unless the
\* step ends the run for another reason (a failing emit_event, or a result of
\* the tool that json.dumps rejects), one tool-result message named after the
\* tool is appended, one act/progress event is stored, and the loop goes on
\* to the next call of the round or to the next model invocation.
C31_MalformedArgsEmpty ==
    [][(pc = "act" /\ Known(CurrentName) /\ C31_Malformed) =>
          /\ run'.args = EmptyDict
          /\ run'.invoked = run.invoked + 1
          /\ IF run'.exc # NoExc
             THEN run'.exc.origin \in {"emit_event", "json.dumps"}
             ELSE /\ Len(msgs') = Len(msgs) + 1
                  /\ SubSeq(msgs', 1, Len(msgs)) = msgs
                  /\ msgs'[Len(msgs')].type = "tool"
                  /\ msgs'[Len(msgs')].name = CurrentName.val
                  /\ events' = Append(events, Event("act", "progress"))
                  /\ ~run'.returned
                  /\ IF tci < Len(ai.tool_calls)
                     THEN pc' = "act" /\ tci' = tci + 1
                     ELSE pc' = "plan"]_vars

\* C31: the first of two calls had a malformed payload, the tool was invoked
\* with no arguments and returned, and the loop is at the second call
C31_Witness ==
    /\ pc = "act"
    /\ tci = 2
    /\ ai.tool_calls[1].arguments = Str("{oops")
    /\ ai.tool_calls[1].args = None
    /\ run.args = EmptyDict
    /\ run.invoked = 1
    /\ Len(msgs) = 3
    /\ msgs[3].type = "tool"
    /\ msgs[3].content = Doc("v1")

\* C32: in every state the persisted status of the job is queued, succeeded
\* or failed (or there is no row), never running, and neither is the status
\* held in the open session; the job row changes only in the step that commits
\* at line 80, which ends the execution, so each execution writes it at most
\* once, at completion.
C32_NeverRunning ==
    /\ [](job.status \in {"absent", "queued", "succeeded", "failed"})
    /\ [](sess.status \in {"absent", "queued", "succeeded", "failed"})
    /\ [][job' # job => (pc = "commit" /\ pc' = "done" /\ job' = sess)]_vars
    /\ [][pc = "done" => (pc' = "queued" /\ job' = job)]_vars

\* C32: a second execution of the task has committed the job row again, after
\* the first had committed it
C32_Witness ==
    /\ pc = "done"
    /\ execs = 2
    /\ job.status = "failed"
    /\ job.output_json.present

\* C33: whenever should_retry has been called in the arun that is running, or
\* that a model failure has just ended, the attempt it was given is the number
\* of model invocations that failed since the arun began, in whatever rounds
\* they failed: 1 for the first failure, one more for each further one,
\* successful invocations in between notwithstanding.
C33_CumulativeAttempt ==
    (/\ run.pred \in {"true", "false", "raised"}
     /\ ~run.returned
     /\ run.exc.origin \in {"", "ainvoke", "should_retry"}) =>
        /\ run.passed = run.failures
        /\ run.passed >= 1

\* C33: the first failure was in the first planning round, the model then
\* answered with tool calls, and the failure of the next round was judged
\* with attempt 2
C33_Witness ==
    /\ pc = "plan"
    /\ round = 1
    /\ run.carried = 1
    /\ run.failures = 2
    /\ run.passed = 2
    /\ run.pred = "true"
    /\ attempt = 2

\* the calls of the current round processed so far: all of them once the loop
\* is back at the model invocation
C34_Processed ==
    IF pc = "act" THEN tci - 1
    ELSE IF pc = "plan" /\ round >= 1 THEN Len(ai.tool_calls) ELSE 0

\* the tool-result messages of the current round, in transcript order
C34_RoundMsgs == SelectSeq(msgs, LAMBDA m : m.type = "tool" /\ m.round = round)

\* the name a tool-result message carries for the call tc (lines 68 and 85)
C34_MsgName(tc) == PyOr(CallName(tc), Str("tool")).val

\* C34: while arun runs a round with tool calls, and when it is back at the
\* model invocation after one, the tool-result messages of the round are
\* those of the calls processed so far, one per call and in request order,
\* they are the last messages of the transcript, the events stored last are
\* (act, started) and then one (act, progress) per processed call; and the
\* loop returns to the model invocation only from the last call of the round.
C34_OnePerCall ==
    /\ [](pc \in {"plan", "act"} /\ round >= 1 =>
            LET n == C34_Processed
                t == C34_RoundMsgs
                ev == RunEvents
            IN  /\ Len(t) = n
                /\ \A i \in 1..n : t[i].name = C34_MsgName(ai.tool_calls[i])
                /\ SubSeq(msgs, Len(msgs) - n + 1, Len(msgs)) = t
                /\ Len(run.lastRound) = n
                /\ \A i \in 1..n : t[i].content = run.lastRound[i]
                /\ Len(ev) >= n + 1
                /\ ev[Len(ev) - n] = Event("act", "started")
                /\ \A i \in 1..n : ev[Len(ev) - n + i] = Event("act", "progress"))
    /\ [][pc = "act" /\ pc' = "plan" => tci = Len(ai.tool_calls)]_vars

\* C34: a round of three calls, an unknown one between two known ones, has
\* been processed and the model is about to be invoked again
C34_Witness ==
    /\ pc = "plan"
    /\ round = 1
    /\ Len(ai.tool_calls) = 3
    /\ Len(C34_RoundMsgs) = 3
    /\ C34_RoundMsgs[1].name = "lookup"
    /\ C34_RoundMsgs[2].name = "nosuch"
    /\ C34_RoundMsgs[3].name = "lookup"

\* the positions of the succeeded and failed notices on the channel
C35_Notices == {i \in 1..Len(channel) : channel[i].event \in {"succeeded", "failed"}}

\* C35: in every state in which a succeeded or failed notice is on the
\* channel, the committed job row has the terminal status that the latest
\* such notice announces; in particular it is not queued.
C35_NoticeAfterPersist ==
    \A i \in C35_Notices :
        /\ job.status # "queued"
        /\ (\A j \in C35_Notices : j <= i) => job.status = channel[i].event

\* C35, where the code does what the claim says: the commit of line 80 has
\* succeeded and the row has the status of the notice
C35_Witness ==
    /\ pc = "done"
    /\ C35_Notices # {}
    /\ channel[Len(channel)].event = "succeeded"
    /\ job.status = "succeeded"

\* C36: in every state, over all the executions of run_agent_job for the job
\* so far (queue retries after a failed commit or a failed dispatch included),
\* at most one WebhookDelivery row has been created for it.
C36_OneRowPerJob == Len(deliveries) <= 1

\* C36, where the code does what the claim says: the first execution failed
\* before enqueue_delivery, the retry created the only row and committed
C36_Witness ==
    /\ pc = "done"
    /\ execs = 2
    /\ retries = 1
    /\ Len(deliveries) = 1
    /\ run.delivery = 1
    /\ Terminal(job.status)

\* C37: in every state in which the latest execution of deliver_webhook
\* committed the row, the persisted attempts of the row is the number of POST
\* requests made for the delivery so far; this also when the commit of the
\* success path failed and the handler of line 126 ran for the same attempt.
C37_AttemptsCountPosts ==
    (Len(deliveries) = 1 /\ http.posts > 0 /\ http.commit \in {"ok", "fails_once"}) =>
        deliveries[1].attempts = http.posts

\* C37, where the code does what the claim says: three failed attempts, every
\* commit succeeded, and the row counts three
C37_Witness ==
    /\ Len(deliveries) = 1
    /\ http.posts = 3
    /\ http.dbfails = 0
    /\ ~http.ok
    /\ deliveries[1].attempts = 3
    /\ deliveries[1].status = "retrying"

\* C38: in every state in which arun has started, the tenant id and the job
\* id it passes to emit_event are the task arguments of run_agent_job,
\* whatever the submitted payload holds under the keys tenant_id and job_id,
\* and the user payload put into the user message is the submitted payload
\* without those two keys.
C38_IdsFromTaskArgs ==
    (cfg.resolve = "loop" /\ pc \in {"plan", "act", "persist"}) =>
        /\ run.ids = [tenant |-> TenantId, job |-> JobId]
        /\ DOMAIN run.shown = DOMAIN cfg.payload \ {"tenant_id", "job_id"}
        /\ \A k \in DOMAIN run.shown : run.shown[k] = cfg.payload[k]

\* C38: the payload named another tenant and another job, and arun ran to its
\* return under the ids of the task
C38_Witness ==
    /\ DOMAIN cfg.payload = {"q", "tenant_id", "job_id"}
    /\ cfg.payload["tenant_id"] = "tenant-2"
    /\ pc = "persist"
    /\ run.returned
    /\ run.ids = [tenant |-> "tenant-1", job |-> "job-1"]
    /\ DOMAIN run.shown = {"q"}

\* C39: a stream opened by a client authenticated as another tenant than the
\* owner of the job yields none of the job's messages.
C39_TenantScoped ==
    \A s \in Subscribers :
        (subs[s] # NoSub /\ subs[s].tenant # TenantId) => subs[s].got = <<>>

\* C39: the other tenant's client asked for another job id, messages of the
\* job were published after it subscribed, and its stream yielded none
C39_Witness ==
    \E s \in Subscribers :
        /\ subs[s].tenant = "tenant-2"
        /\ subs[s].channel = ChannelName("tenant-2", "job-2")
        /\ Len(channel) > subs[s].from + 1
        /\ subs[s].got = <<>>

\* the calls of check_rate_limit that have ended with 429
C40_Rejected == {c \in LimitCalls : rl.call[c].outcome = "429"}

\* C40, first part: in the window of a key, from its creation to its expiry,
\* _allow allows at most `limit` calls.
C40_AtMostLimit == \A k \in LimitKeys : rl.admitted[k] <= Limit(k)

\* C40, second part: the tenant's counter is incremented before the user's, and
\* a call rejected on the tenant limit has not incremented the user's counter.
C40_TenantFirst ==
    /\ \A c \in LimitCalls : "user" \in rl.call[c].bumped => "tenant" \in rl.call[c].bumped
    /\ \A c \in C40_Rejected :
          rl.call[c].key = "tenant" => "user" \notin rl.call[c].bumped

\* C40, third part: a rejected call has incremented the counter it was rejected
\* on.
C40_RejectedCounts ==
    \A c \in C40_Rejected :
        /\ rl.call[c].key \in rl.call[c].bumped
        /\ rl.call[c].current > Limit(rl.call[c].key)

\* C40, fourth part: a key that exists has an expiry once the call that
\* created it has ended.
C40_KeysExpire ==
    \A k \in LimitKeys :
        (rl.count[k] > 0 /\ rl.creator[k] # 0 /\ rl.call[rl.creator[k]].pc = "done")
            => rl.ttl[k]

\* C40: under every interleaving of concurrent check_rate_limit calls, at most
\* `limit` calls are admitted per key in one window, the tenant limit is
\* checked first and a call it rejects leaves the user counter alone, a
\* rejected call has incremented the counter it was rejected on, and a key
\* that exists has an expiry once the call that created it has ended.
C40_RateLimit ==
    /\ C40_AtMostLimit
    /\ C40_TenantFirst
    /\ C40_RejectedCounts
    /\ C40_KeysExpire

\* C40: the call that created the tenant's key has ended, the key has its
\* expiry, and a later call was rejected on the tenant limit after
\* incrementing the tenant's counter only
C40_Witness ==
    /\ rl.count["tenant"] > TenantLimit
    /\ rl.ttl["tenant"]
    /\ rl.call[rl.creator["tenant"]].outcome = "ok"
    /\ \E c \in C40_Rejected : rl.call[c].key = "tenant" /\ rl.call[c].bumped = {"tenant"}

====
